---- MODULE Spec2Model ----
(***************************************************************************)
(* Model of the miniflux-ai entry processing pipeline:                     *)
(*   core/content_helper.py   the content codec (markers, parse, build)    *)
(*   core/rule_matcher.py     allow/deny rule matching                     *)
(*   core/llm_client.py       get_completion                               *)
(*   core/entry_processor.py  process_entry, the dedup cache and its lock  *)
(*   core/entry_handler.py    handle_unread_entries, pages and counters    *)
(*                                                                         *)
(* A Python str is a sequence of tokens.  A token is a pair <<kind, x>>:   *)
(*   <<"c", ch>>     one piece of ordinary text (ch = " " or "\n" is       *)
(*                   whitespace, anything else is not)                     *)
(*   <<"a", name>>   the text MARKER.format(name)                          *)
(*   <<"div", name>> the legacy marker text for name                       *)
(* A Python dict is an insertion-ordered sequence of <<key, value>> pairs  *)
(* with distinct keys.                                                     *)
(***************************************************************************)
EXTENDS Integers, Sequences, FiniteSets, TLC

VARIABLES
    agents,                   \* config.agents: ordered name -> Agent
    codec,                    \* values passed through the codec, oldest first
    feed,                     \* Miniflux: entry id -> stored content
    now,                      \* the clock read by the TTLCache timer
    ENTRY_CACHE,              \* _ENTRY_CACHE: links <<key, expires>>, oldest first
    ENTRY_CACHE_LOCK,         \* _ENTRY_CACHE_LOCK: holder, or NoWorker
    pc,                       \* worker -> position inside process_entry
    entry,                    \* worker -> the entry dict given to process_entry
    original_content,         \* worker -> local of process_entry
    existing_agent_contents,  \* worker -> local of process_entry
    new_agents,               \* worker -> local of process_entry (names, in order)
    agent_results,            \* worker -> local of _process_entry_with_agents
    idx,                      \* worker -> loop position in new_agents
    ordered_content,          \* worker -> local of process_entry
    outcome,                  \* worker -> what process_entry returned or raised
    calls,                    \* worker -> collaborator calls made by this call
    gate,                     \* id -> when it was last inserted, evicted since?
    matching,                 \* one call into rule_matcher.py: arguments and result
    batch,                    \* handle_unread_entries: its locals and the feed service
    process,                  \* main.py: shutdown_event, the scheduler, the pool
    digest                    \* the summary and digest files and the threads that use them

vars == <<agents, codec, feed, now, ENTRY_CACHE, ENTRY_CACHE_LOCK, pc, entry,
          original_content, existing_agent_contents, new_agents, agent_results,
          idx, ordered_content, outcome, calls, gate, matching, batch,
          process, digest>>

----------------------------------------------------------------------------
(* Bounds of the model *)

MaxValLen == 2          \* longest agent content / original content fed to build
MaxBodyLen == 3         \* longest body fed to parse and stored in the feed at start
MaxCodecSteps == 3      \* codec applications in one run of the codec specification
MaxTime == 3            \* last clock tick explored
MaxRules == 2           \* longest allow, deny or rule list given to the rule matcher
MaxLength == 3          \* longest content (in tokens) given to the rule matcher
MaxUnread == 4          \* most unread articles the feed service holds
limit == 2              \* page size of handle_unread_entries (100 in the source)

Workers == {"w1", "w2"}  \* the pool threads (config.llm_max_workers)
EntryIds == {1, 2}       \* the articles of the feed when the whole pool runs

\* _ENTRY_CACHE = TTLCache(maxsize=1000, ttl=300), scaled to the model: the ttl
\* ends one tick before the clock stops, and the feed holds one article more
\* than the cache
CACHE_TTL == MaxTime - 1
CACHE_MAXSIZE == Cardinality(EntryIds) - 1
NoWorker == "none"

----------------------------------------------------------------------------
(* Text *)

X == <<"c", "x">>
Y == <<"c", "y">>
SP == <<"c", " ">>
NL == <<"c", "\n">>
P_OPEN == <<"c", "<p>">>
P_CLOSE == <<"c", "</p>">>

IsSpace(tok) == tok[1] = "c" /\ tok[2] \in {" ", "\n"}

RECURSIVE lstrip(_)
lstrip(s) ==
    IF s # <<>> /\ IsSpace(Head(s)) THEN lstrip(Tail(s)) ELSE s

RECURSIVE rstrip(_)
rstrip(s) ==
    IF s # <<>> /\ IsSpace(s[Len(s)]) THEN rstrip(SubSeq(s, 1, Len(s) - 1)) ELSE s

\* str.strip()
strip(s) == rstrip(lstrip(s))

\* All sequences over S of length at most n
RECURSIVE SeqsUpTo(_, _)
SeqsUpTo(S, n) ==
    IF n = 0 THEN {<<>>}
    ELSE LET shorter == SeqsUpTo(S, n - 1)
         IN  shorter \cup {Append(s, t) : s \in shorter, t \in S}

\* x in s
InSeq(x, s) == \E i \in DOMAIN s : s[i] = x

----------------------------------------------------------------------------
(* Python dict: insertion-ordered association list *)

DictKeys(d) == {d[i][1] : i \in DOMAIN d}

DictHas(d, k) == k \in DictKeys(d)

DictGet(d, k) == d[CHOOSE i \in DOMAIN d : d[i][1] = k][2]

\* d[k] = v : an existing key keeps its position, a new key goes last
DictSet(d, k, v) ==
    IF DictHas(d, k)
    THEN [i \in DOMAIN d |-> IF d[i][1] = k THEN <<k, v>> ELSE d[i]]
    ELSE Append(d, <<k, v>>)

\* A variant of DictMerge that keeps only the second dict
DictMergeSecond(a, b) == b

\* {**a, **b}
RECURSIVE DictMerge(_, _)
DictMerge(a, b) ==
    IF b = <<>> THEN a
    ELSE DictMerge(DictSet(a, Head(b)[1], Head(b)[2]), Tail(b))

\* The mapping a dict stands for (dict equality ignores order)
DictAsMap(d) == [k \in DictKeys(d) |-> DictGet(d, k)]

\* The dicts with distinct keys from K and values from V
RECURSIVE DictsOver(_, _)
DictsOver(K, V) ==
    IF K = {} THEN {<<>>}
    ELSE {<<>>} \cup
         UNION {{<<<<k, v>>>> \o rest : v \in V, rest \in DictsOver(K \ {k}, V)} : k \in K}

----------------------------------------------------------------------------
(* config.agents *)

\* config.agents.keys(): the canonical order of agent names
AgentNames == [i \in DOMAIN agents |-> agents[i].name]

ConfiguredNames == {agents[i].name : i \in DOMAIN agents}

AgentOf(name) == agents[CHOOSE i \in DOMAIN agents : agents[i].name = name]

----------------------------------------------------------------------------
(* core/content_helper.py: markers *)

BadName == "q\"uote"

\* The names the group ([^"]+) of MARKER_PATTERN and _LEGACY_MARKER_PATTERN can
\* capture: at least one character, none of them a double quote
NameMatches(name) == name # "" /\ name # BadName

\* MARKER.format(agent_name)
MARKER(agent_name) == <<"a", agent_name>>

LEGACY_MARKER(agent_name) == <<"div", agent_name>>

\* Whether re.finditer(combined_pattern, content) matches at this token
IsMarkerMatch(tok) == tok[1] \in {"a", "div"} /\ NameMatches(tok[2])

\* match.group(1) or match.group(2)
MatchName(tok) == tok[2]

HasMarker(content) == \E i \in DOMAIN content : IsMarkerMatch(content[i])

\* The loop of parse_entry_content over the matches, left to right: i is the
\* position scanned, prev_marker_end the position of the previous match
RECURSIVE ParseMatches(_, _, _, _)
ParseMatches(content, i, prev_marker_end, agent_contents) ==
    IF i > Len(content)
    THEN [original |-> strip(SubSeq(content, prev_marker_end + 1, Len(content))),
          agents |-> agent_contents]
    ELSE IF IsMarkerMatch(content[i])
    THEN LET agent_content == strip(SubSeq(content, prev_marker_end + 1, i - 1))
         IN  ParseMatches(content, i + 1, i,
                 IF agent_content # <<>>
                 THEN DictSet(agent_contents, MatchName(content[i]), agent_content)
                 ELSE agent_contents)
    ELSE ParseMatches(content, i + 1, prev_marker_end, agent_contents)

\* A variant of parse_entry_content without the early return for no match
parse_entry_content_stripping(content) == ParseMatches(content, 1, 0, <<>>)

parse_entry_content(content) ==
    IF ~HasMarker(content)
    THEN [original |-> content, agents |-> <<>>]
    ELSE ParseMatches(content, 1, 0, <<>>)

\* A variant of OrderedParts that puts each marker before its block
RECURSIVE OrderedPartsMarkerFirst(_, _)
OrderedPartsMarkerFirst(names, agent_contents) ==
    IF names = <<>> THEN <<>>
    ELSE (IF DictHas(agent_contents, Head(names))
          THEN <<MARKER(Head(names))>> \o DictGet(agent_contents, Head(names))
          ELSE <<>>)
         \o OrderedPartsMarkerFirst(Tail(names), agent_contents)

\* The loop of build_ordered_content over config.agents.keys()
RECURSIVE OrderedParts(_, _)
OrderedParts(names, agent_contents) ==
    IF names = <<>> THEN <<>>
    ELSE (IF DictHas(agent_contents, Head(names))
          THEN DictGet(agent_contents, Head(names)) \o <<MARKER(Head(names))>>
          ELSE <<>>)
         \o OrderedParts(Tail(names), agent_contents)

\* A variant of build_ordered_content that iterates the map, not the configuration
RECURSIVE build_in_map_order(_, _)
build_in_map_order(agent_contents, original) ==
    IF agent_contents = <<>> THEN original
    ELSE (IF Head(agent_contents)[1] \in ConfiguredNames
          THEN Head(agent_contents)[2] \o <<MARKER(Head(agent_contents)[1])>>
          ELSE <<>>)
         \o build_in_map_order(Tail(agent_contents), original)

build_ordered_content(agent_contents, original) ==
    IF agent_contents = <<>>
    THEN original
    ELSE OrderedParts(AgentNames, agent_contents) \o original

\* to_html (mistune): empty text renders to nothing, other text to a paragraph
\* ending in a newline; raw HTML such as a marker passes through
to_html(content) ==
    IF content = <<>> THEN <<>> ELSE <<P_OPEN>> \o content \o <<P_CLOSE, NL>>

IsTag(tok) == tok[1] \in {"a", "div"} \/ tok \in {P_OPEN, P_CLOSE}

\* get_clean_content: the text nodes between tags, each stripped, the non-empty
\* ones joined by one space
RECURSIVE CleanFrom(_, _, _)
CleanFrom(html_content, node, acc) ==
    LET text == strip(node)
        joined == IF text = <<>> THEN acc
                  ELSE IF acc = <<>> THEN text
                  ELSE acc \o <<SP>> \o text
    IN  IF html_content = <<>> THEN joined
        ELSE IF IsTag(Head(html_content))
        THEN CleanFrom(Tail(html_content), <<>>, joined)
        ELSE CleanFrom(Tail(html_content), Append(node, Head(html_content)), acc)

get_clean_content(html_content) == CleanFrom(html_content, <<>>, <<>>)

\* get_content_text (the per-entry cache holds the value computed here)
get_content_text(e) == get_clean_content(e.content)

\* get_content_length: the number of tokens of the whitespace-normalised text;
\* every piece of text that is not whitespace counts as one token
get_content_length(e) ==
    Cardinality({i \in DOMAIN get_content_text(e) : ~IsSpace(get_content_text(e)[i])})

----------------------------------------------------------------------------
(* core/rule_matcher.py *)
(* A rule string is a record [eq, field, pattern]: eq says whether the     *)
(* string holds a '=', field and pattern are the two stripped halves.      *)
(* A pattern is [k |-> "empty"], [k |-> "re", lit |-> text] (a valid       *)
(* regular expression found exactly in the values that contain lit),       *)
(* [k |-> "badre"] (re.error), or [k |-> "op", text |-> chars] (any other  *)
(* text, given as its sequence of characters, as the operator expressions  *)
(* of EntryContentLength are).                                             *)

FIELD_ENTRY_TITLE == "EntryTitle"
FIELD_ENTRY_URL == "EntryURL"
FIELD_ENTRY_CONTENT == "EntryContent"
FIELD_ENTRY_AUTHOR == "EntryAuthor"
FIELD_ENTRY_TAG == "EntryTag"
FIELD_ENTRY_CONTENT_LENGTH == "EntryContentLength"
FIELD_FEED_SITE_URL == "FeedSiteUrl"
FIELD_FEED_TITLE == "FeedTitle"
FIELD_FEED_CATEGORY_TITLE == "FeedCategoryTitle"
FIELD_NEVER_MATCH == "NeverMatch"

SUPPORTED_FIELDS ==
    {FIELD_ENTRY_TITLE, FIELD_ENTRY_URL, FIELD_ENTRY_CONTENT, FIELD_ENTRY_AUTHOR,
     FIELD_ENTRY_TAG, FIELD_ENTRY_CONTENT_LENGTH, FIELD_FEED_SITE_URL,
     FIELD_FEED_TITLE, FIELD_FEED_CATEGORY_TITLE, FIELD_NEVER_MATCH}

NoRule == [field |-> "", pattern |-> [k |-> "empty"]]

\* parse_rule: NoRule stands for None
parse_rule(rule_string) ==
    IF ~rule_string.eq THEN NoRule
    ELSE IF rule_string.field \notin SUPPORTED_FIELDS THEN NoRule
    ELSE IF rule_string.pattern.k = "empty" /\ rule_string.field # FIELD_NEVER_MATCH
    THEN NoRule
    ELSE [field |-> rule_string.field, pattern |-> rule_string.pattern]

\* dict.get(key, ''): an entry is a record, its keys are its fields; the keys
\* of entry['feed'] are written feed_site_url, feed_title, feed_category_title
EntryGet(e, key) == IF key \in DOMAIN e THEN e[key] ELSE <<>>

\* get_entry_field_value (the tags of an entry are not modelled)
get_entry_field_value(e, field_name) ==
    IF field_name = FIELD_ENTRY_TITLE THEN EntryGet(e, "title")
    ELSE IF field_name = FIELD_ENTRY_URL THEN EntryGet(e, "url")
    ELSE IF field_name = FIELD_ENTRY_CONTENT THEN get_content_text(e)
    ELSE IF field_name = FIELD_ENTRY_AUTHOR THEN EntryGet(e, "author")
    ELSE IF field_name = FIELD_ENTRY_TAG THEN <<>>
    ELSE IF field_name = FIELD_FEED_SITE_URL THEN EntryGet(e, "feed_site_url")
    ELSE IF field_name = FIELD_FEED_TITLE THEN EntryGet(e, "feed_title")
    ELSE IF field_name = FIELD_FEED_CATEGORY_TITLE
    THEN EntryGet(e, "feed_category_title")
    ELSE <<>>

\* str.startswith(prefix)
startswith(text, prefix) ==
    Len(text) >= Len(prefix) /\ SubSeq(text, 1, Len(prefix)) = prefix

DIGITS == <<"0", "1", "2", "3", "4", "5", "6", "7", "8", "9">>

IsDigit(ch) == \E d \in DOMAIN DIGITS : DIGITS[d] = ch

DigitValue(ch) == (CHOOSE d \in DOMAIN DIGITS : DIGITS[d] = ch) - 1

RECURSIVE Decimal(_)
Decimal(digits) ==
    IF digits = <<>> THEN 0
    ELSE 10 * Decimal(SubSeq(digits, 1, Len(digits) - 1))
         + DigitValue(digits[Len(digits)])

RECURSIVE StripChars(_)
StripChars(text) ==
    IF text # <<>> /\ Head(text) = " " THEN StripChars(Tail(text))
    ELSE IF text # <<>> /\ text[Len(text)] = " "
    THEN StripChars(SubSeq(text, 1, Len(text) - 1))
    ELSE text

\* The digits int() reads: whitespace at both ends and one sign are dropped
IntDigits(text) ==
    LET stripped == StripChars(text)
    IN  IF stripped # <<>> /\ Head(stripped) \in {"-", "+"} THEN Tail(stripped)
        ELSE stripped

\* int(text) raises ValueError
int_raises(text) ==
    \/ IntDigits(text) = <<>>
    \/ \E i \in DOMAIN IntDigits(text) : ~IsDigit(IntDigits(text)[i])

\* int(text) when it does not raise
int(text) ==
    IF StripChars(text) # <<>> /\ Head(StripChars(text)) = "-"
    THEN 0 - Decimal(IntDigits(text))
    ELSE Decimal(IntDigits(text))

\* The position of the first ',' in text, 0 if there is none
FirstComma(text) ==
    IF \E i \in DOMAIN text : text[i] = ","
    THEN CHOOSE i \in DOMAIN text :
             text[i] = "," /\ \A j \in 1..(i - 1) : text[j] # ","
    ELSE 0

GT == <<"g", "t", ":">>
GE == <<"g", "e", ":">>
LT == <<"l", "t", ":">>
LE == <<"l", "e", ":">>
EQ == <<"e", "q", ":">>
BETWEEN == <<"b", "e", "t", "w", "e", "e", "n", ":">>

\* A variant of match_content_length whose between excludes its bounds
match_content_length_exclusive(e, operator) ==
    LET content_length == get_content_length(e)
        text == operator.text
        threshold == SubSeq(text, 4, Len(text))
        range_str == SubSeq(text, 9, Len(text))
        min_val == SubSeq(range_str, 1, FirstComma(range_str) - 1)
        max_val == SubSeq(range_str, FirstComma(range_str) + 1, Len(range_str))
    IN  IF operator.k # "op" THEN FALSE
        ELSE IF startswith(text, GT)
        THEN ~int_raises(threshold) /\ content_length > int(threshold)
        ELSE IF startswith(text, GE)
        THEN ~int_raises(threshold) /\ content_length >= int(threshold)
        ELSE IF startswith(text, LT)
        THEN ~int_raises(threshold) /\ content_length < int(threshold)
        ELSE IF startswith(text, LE)
        THEN ~int_raises(threshold) /\ content_length <= int(threshold)
        ELSE IF startswith(text, EQ)
        THEN ~int_raises(threshold) /\ content_length = int(threshold)
        ELSE IF startswith(text, BETWEEN)
        THEN /\ FirstComma(range_str) # 0
             /\ ~int_raises(min_val)
             /\ ~int_raises(max_val)
             /\ int(min_val) < content_length
             /\ content_length < int(max_val)
        ELSE FALSE

\* _match_content_length: a ValueError of int() is caught and gives False; a
\* pattern that is no operator expression is an unknown operator
match_content_length(e, operator) ==
    LET content_length == get_content_length(e)
        text == operator.text
        threshold == SubSeq(text, 4, Len(text))
        range_str == SubSeq(text, 9, Len(text))
        min_val == SubSeq(range_str, 1, FirstComma(range_str) - 1)
        max_val == SubSeq(range_str, FirstComma(range_str) + 1, Len(range_str))
    IN  IF operator.k # "op" THEN FALSE
        ELSE IF startswith(text, GT)
        THEN ~int_raises(threshold) /\ content_length > int(threshold)
        ELSE IF startswith(text, GE)
        THEN ~int_raises(threshold) /\ content_length >= int(threshold)
        ELSE IF startswith(text, LT)
        THEN ~int_raises(threshold) /\ content_length < int(threshold)
        ELSE IF startswith(text, LE)
        THEN ~int_raises(threshold) /\ content_length <= int(threshold)
        ELSE IF startswith(text, EQ)
        THEN ~int_raises(threshold) /\ content_length = int(threshold)
        ELSE IF startswith(text, BETWEEN)
        THEN /\ FirstComma(range_str) # 0
             /\ ~int_raises(min_val)
             /\ ~int_raises(max_val)
             /\ int(min_val) <= content_length
             /\ content_length <= int(max_val)
        ELSE FALSE

Contains(value, lit) ==
    \E i \in 0..(Len(value) - Len(lit)) : SubSeq(value, i + 1, i + Len(lit)) = lit

\* re.search(pattern, field_value): TRUE, FALSE, or re.error (FALSE, skipped)
re_search(pattern, field_value) ==
    pattern.k = "re" /\ Contains(field_value, pattern.lit)

\* A variant of match_any_rule that gives up at the first rule it cannot use
RECURSIVE match_any_rule_stop(_, _)
match_any_rule_stop(e, rules) ==
    IF rules = <<>> THEN FALSE
    ELSE LET parsed == parse_rule(Head(rules))
         IN  IF parsed = NoRule THEN FALSE
             ELSE IF parsed.field = FIELD_NEVER_MATCH
             THEN match_any_rule_stop(e, Tail(rules))
             ELSE IF parsed.field = FIELD_ENTRY_CONTENT_LENGTH
             THEN match_content_length(e, parsed.pattern)
                  \/ match_any_rule_stop(e, Tail(rules))
             ELSE /\ parsed.pattern.k # "badre"
                  /\ \/ re_search(parsed.pattern, get_entry_field_value(e, parsed.field))
                     \/ match_any_rule_stop(e, Tail(rules))

\* _match_any_rule
RECURSIVE match_any_rule(_, _)
match_any_rule(e, rules) ==
    IF rules = <<>> THEN FALSE
    ELSE LET parsed == parse_rule(Head(rules))
         IN  IF parsed = NoRule THEN match_any_rule(e, Tail(rules))
             ELSE IF parsed.field = FIELD_NEVER_MATCH THEN match_any_rule(e, Tail(rules))
             ELSE IF parsed.field = FIELD_ENTRY_CONTENT_LENGTH
             THEN match_content_length(e, parsed.pattern)
                  \/ match_any_rule(e, Tail(rules))
             ELSE re_search(parsed.pattern, get_entry_field_value(e, parsed.field))
                  \/ match_any_rule(e, Tail(rules))

\* A variant of match_rules that consults the allow list first
match_rules_allow_first(e, allow_rules, deny_rules) ==
    IF allow_rules # <<>> /\ match_any_rule(e, allow_rules) THEN TRUE
    ELSE IF deny_rules # <<>> /\ match_any_rule(e, deny_rules) THEN FALSE
    ELSE allow_rules = <<>>

\* A variant of match_rules for which an allow list only adds to the default
match_rules_allow_optional(e, allow_rules, deny_rules) ==
    IF deny_rules # <<>> /\ match_any_rule(e, deny_rules) THEN FALSE
    ELSE TRUE

\* A variant of match_rules that takes an allow list of placeholders for an
\* empty one
match_rules_placeholders_empty(e, allow_rules, deny_rules) ==
    LET usable == SelectSeq(allow_rules, LAMBDA rule :
                      /\ parse_rule(rule) # NoRule
                      /\ parse_rule(rule).field # FIELD_NEVER_MATCH)
    IN  IF deny_rules # <<>> /\ match_any_rule(e, deny_rules) THEN FALSE
        ELSE IF usable # <<>> THEN match_any_rule(e, allow_rules)
        ELSE TRUE

\* match_rules
match_rules(e, allow_rules, deny_rules) ==
    IF deny_rules # <<>> /\ match_any_rule(e, deny_rules) THEN FALSE
    ELSE IF allow_rules # <<>> THEN match_any_rule(e, allow_rules)
    ELSE TRUE

----------------------------------------------------------------------------
(* core/llm_client.py *)
(* An LLM response is [kind |-> "raise"] (the API call raises),            *)
(* [kind |-> "no_choices"] (no choices or no message), or                  *)
(* [kind |-> "content", content |-> text] (text <<>> is None or '').       *)

\* get_completion: [ok |-> TRUE, text] is a return, [ok |-> FALSE, error] a raise
get_completion(response) ==
    IF response.kind = "raise"
    THEN [ok |-> FALSE, text |-> <<>>, error |-> "APIError"]
    ELSE IF response.kind = "no_choices"
    THEN [ok |-> FALSE, text |-> <<>>, error |-> "LLMResponseError"]
    ELSE IF response.content = <<>>
    THEN [ok |-> FALSE, text |-> <<>>, error |-> "LLMResponseError"]
    ELSE [ok |-> TRUE, text |-> strip(response.content), error |-> ""]

----------------------------------------------------------------------------
(* common/models.py: AgentResult *)

SUCCESS == "SUCCESS"
FILTERED == "FILTERED"
ERROR == "ERROR"

AgentResult_success(content) ==
    [status |-> SUCCESS, content |-> content, error_message |-> ""]

AgentResult_filtered == [status |-> FILTERED, content |-> <<>>, error_message |-> ""]

AgentResult_error(message) ==
    [status |-> ERROR, content |-> <<>>, error_message |-> message]

is_success(r) == r.status = SUCCESS

is_error(r) == r.status = ERROR

is_filtered(r) == r.status = FILTERED

----------------------------------------------------------------------------
(* core/entry_processor.py: pure parts *)

CONTENT_PLACEHOLDER == <<"c", "{content}">>

\* template.replace('{content}', html_content)
RECURSIVE replace_content(_, _)
replace_content(template, html_content) ==
    IF template = <<>> THEN <<>>
    ELSE (IF Head(template) = CONTENT_PLACEHOLDER THEN html_content
          ELSE <<Head(template)>>)
         \o replace_content(Tail(template), html_content)

\* _format_agent_content
format_agent_content(agent, agent_content) ==
    LET html_content == to_html(agent_content)
    IN  IF agent.template # <<>>
        THEN replace_content(agent.template, html_content)
        ELSE html_content

\* A variant of NewAgents that runs every configured agent again
NewAgentsAll(existing) == AgentNames

\* A variant of NewAgents that walks the configuration from its end
NewAgentsReversed(existing) ==
    LET todo == SelectSeq(AgentNames, LAMBDA name : ~DictHas(existing, name))
    IN  [i \in DOMAIN todo |-> todo[Len(todo) + 1 - i]]

\* new_agents of process_entry: the configured names that are no key of
\* existing_agent_contents, in configuration order
NewAgents(existing) ==
    SelectSeq(AgentNames, LAMBDA name : ~DictHas(existing, name))

\* new_agent_contents of process_entry
RECURSIVE NewAgentContents(_)
NewAgentContents(results) ==
    IF results = <<>> THEN <<>>
    ELSE (IF is_success(Head(results)[2])
          THEN <<<<Head(results)[1], Head(results)[2].content>>>>
          ELSE <<>>)
         \o NewAgentContents(Tail(results))

\* A variant of OrderedContent that puts the article before the blocks
OrderedContentArticleFirst(existing, results, original) ==
    original \o build_ordered_content(DictMerge(existing, NewAgentContents(results)), <<>>)

\* The body process_entry sends to update_entry
OrderedContent(existing, results, original) ==
    build_ordered_content(DictMerge(existing, NewAgentContents(results)), original)

----------------------------------------------------------------------------
(* cachetools.TTLCache as used by core/entry_processor.py *)
(* The cache is the list of its links <<key, expires>>, oldest first.      *)

CacheKeys(cache) == {cache[i][1] : i \in DOMAIN cache}

\* key in _ENTRY_CACHE: the link exists and timer() < link.expires
cache_contains(cache, key, time) ==
    \E i \in DOMAIN cache : cache[i][1] = key /\ time < cache[i][2]

\* TTLCache.expire(time): drop every link with expires <= time
cache_expire(cache, time) == SelectSeq(cache, LAMBDA link : time < link[2])

\* The keys popitem removes to make room for key (oldest first)
cache_evicted(cache, key, time) ==
    LET live == cache_expire(cache, time)
    IN  IF key \notin CacheKeys(live) /\ Len(live) + 1 > CACHE_MAXSIZE /\ live # <<>>
        THEN {Head(live)[1]}
        ELSE {}

\* A variant of cache_setitem that stores nothing
cache_setitem_dropped(cache, key, time) == cache_expire(cache, time)

\* _ENTRY_CACHE[key] = True
cache_setitem(cache, key, time) ==
    LET live == cache_expire(cache, time)
        room == SelectSeq(live, LAMBDA link :
                    link[1] # key /\ link[1] \notin cache_evicted(cache, key, time))
    IN  Append(room, <<key, time + CACHE_TTL>>)

----------------------------------------------------------------------------
(* core/entry_processor.py: process_entry as run by one pool worker *)

NoEntry == [id |-> 0, title |-> <<>>, content |-> <<>>]
NoOutcome == [kind |-> "none", results |-> <<>>]

\* What the collaborators saw of one call of process_entry:
\*   seen      the answer of the cache lookup ("none" before it)
\*   at, lost  when this call inserted its id, and whether that link has been
\*             evicted for room since
\*   matched   the agents match_rules was evaluated for, in order
\*   llm       the agents a completion was requested for, in order
\*   responses <<agent, response>> for every answer of the LLM
\*   update    the bodies passed to update_entry, and how the call ended
NoCalls ==
    [seen |-> "none", at |-> 0 - 1, lost |-> FALSE, matched |-> <<>>, llm |-> <<>>,
     responses |-> <<>>, update |-> <<>>, update_result |-> "none"]

EntryTitle(id) == IF id = 1 THEN <<X>> ELSE <<Y>>

\* A variant of original_entry that keeps the body as stored, blocks included
original_entry_stored(w) ==
    [id |-> entry[w].id, title |-> entry[w].title, content |-> entry[w].content]

\* The entry as rule matching and the LLM see it: original_entry of process_entry
original_entry(w) ==
    [id |-> entry[w].id, title |-> entry[w].title, content |-> original_content[w]]

Locals == <<original_content, existing_agent_contents, new_agents, agent_results,
            idx, ordered_content>>

\* executor.submit(process_entry, entry): a free worker takes an article as the
\* feed holds it
Submit(w, id) ==
    /\ pc[w] = "idle"
    /\ id \in DOMAIN feed
    /\ pc' = [pc EXCEPT ![w] = "start"]
    /\ entry' = [entry EXCEPT ![w] =
                    [id |-> id, title |-> EntryTitle(id), content |-> feed[id]]]
    /\ UNCHANGED <<digest, process, matching, batch, agents, codec, feed, now, ENTRY_CACHE, ENTRY_CACHE_LOCK, Locals,
                   outcome, calls, gate>>

\* A variant of IsBlank that tests the content without stripping it
IsBlankUnstripped(content) == content = <<>>

\* not original_content.strip() (process_entry line 41)
IsBlank(content) == strip(content) = <<>>

\* process_entry lines 36-53 and _process_entry_with_agents lines 84-85
Begin(w) ==
    /\ pc[w] = "start"
    /\ LET parsed == parse_entry_content(entry[w].content)
           todo == NewAgents(parsed.agents)
       IN  /\ original_content' = [original_content EXCEPT ![w] = parsed.original]
           /\ existing_agent_contents' =
                  [existing_agent_contents EXCEPT ![w] = parsed.agents]
           /\ IF IsBlank(parsed.original)
              THEN /\ pc' = [pc EXCEPT ![w] = "done"]
                   /\ outcome' = [outcome EXCEPT ![w] =
                                     [kind |-> "return", results |-> <<>>]]
                   /\ UNCHANGED new_agents
              ELSE IF todo = <<>>
              THEN /\ pc' = [pc EXCEPT ![w] = "done"]
                   /\ outcome' = [outcome EXCEPT ![w] =
                                     [kind |-> "return", results |-> <<>>]]
                   /\ UNCHANGED new_agents
              ELSE /\ pc' = [pc EXCEPT ![w] = "lock"]
                   /\ new_agents' = [new_agents EXCEPT ![w] = todo]
                   /\ UNCHANGED outcome
    /\ UNCHANGED <<digest, process, matching, batch, agents, codec, feed, now, ENTRY_CACHE, ENTRY_CACHE_LOCK, entry,
                   agent_results, idx, ordered_content, calls, gate>>

\* A variant of AcquireLock that does not wait for the lock
AcquireLockNoWait(w) ==
    /\ pc[w] = "lock"
    /\ ENTRY_CACHE_LOCK' = w
    /\ pc' = [pc EXCEPT ![w] = "check"]
    /\ UNCHANGED <<digest, process, matching, batch, agents, codec, feed, now, ENTRY_CACHE, entry, Locals, outcome,
                   calls, gate>>

\* with _ENTRY_CACHE_LOCK: (line 89) acquire
AcquireLock(w) ==
    /\ pc[w] = "lock"
    /\ ENTRY_CACHE_LOCK = NoWorker
    /\ ENTRY_CACHE_LOCK' = w
    /\ pc' = [pc EXCEPT ![w] = "check"]
    /\ UNCHANGED <<digest, process, matching, batch, agents, codec, feed, now, ENTRY_CACHE, entry, Locals, outcome,
                   calls, gate>>

\* line 90-92: cache hit; the lock is released, {} is returned, and process_entry
\* finds no new agent contents and returns {} (lines 54-66)
CacheHit(w) ==
    /\ pc[w] = "check"
    /\ cache_contains(ENTRY_CACHE, entry[w].id, now)
    /\ ENTRY_CACHE_LOCK' = NoWorker
    /\ pc' = [pc EXCEPT ![w] = "done"]
    /\ calls' = [calls EXCEPT ![w].seen = "hit"]
    /\ outcome' = [outcome EXCEPT ![w] = [kind |-> "return", results |-> <<>>]]
    /\ UNCHANGED <<digest, process, matching, batch, agents, codec, feed, now, ENTRY_CACHE, entry, Locals, gate>>

\* line 90: cache miss, the worker goes on to line 93 with the lock held
CacheMiss(w) ==
    /\ pc[w] = "check"
    /\ ~cache_contains(ENTRY_CACHE, entry[w].id, now)
    /\ pc' = [pc EXCEPT ![w] = "insert"]
    /\ calls' = [calls EXCEPT ![w].seen = "miss"]
    /\ UNCHANGED <<digest, process, matching, batch, agents, codec, feed, now, ENTRY_CACHE, ENTRY_CACHE_LOCK, entry,
                   Locals, outcome, gate>>

\* A variant of CacheInsert that keeps the lock while the agents run
CacheInsertHolding(w) ==
    /\ pc[w] = "insert"
    /\ ENTRY_CACHE' = cache_setitem(ENTRY_CACHE, entry[w].id, now)
    /\ gate' = [id \in DOMAIN gate |->
                  IF id = entry[w].id THEN [at |-> now, evicted |-> FALSE]
                  ELSE IF id \in cache_evicted(ENTRY_CACHE, entry[w].id, now)
                  THEN [gate[id] EXCEPT !.evicted = TRUE]
                  ELSE gate[id]]
    /\ calls' = [calls EXCEPT ![w].at = now]
    /\ pc' = [pc EXCEPT ![w] = "agent"]
    /\ idx' = [idx EXCEPT ![w] = 1]
    /\ UNCHANGED <<digest, process, matching, batch, agents, codec, feed, now, ENTRY_CACHE_LOCK,
                   entry, original_content, existing_agent_contents, new_agents,
                   agent_results, ordered_content, outcome>>

\* line 93: insert, then leave the with block
CacheInsert(w) ==
    /\ pc[w] = "insert"
    /\ ENTRY_CACHE' = cache_setitem(ENTRY_CACHE, entry[w].id, now)
    /\ gate' = [id \in DOMAIN gate |->
                  IF id = entry[w].id THEN [at |-> now, evicted |-> FALSE]
                  ELSE IF id \in cache_evicted(ENTRY_CACHE, entry[w].id, now)
                  THEN [gate[id] EXCEPT !.evicted = TRUE]
                  ELSE gate[id]]
    /\ calls' = [v \in Workers |->
                   IF v = w THEN [calls[v] EXCEPT !.at = now]
                   ELSE IF /\ calls[v].at >= 0
                           /\ entry[v].id \in cache_evicted(ENTRY_CACHE, entry[w].id, now)
                   THEN [calls[v] EXCEPT !.lost = TRUE]
                   ELSE calls[v]]
    /\ ENTRY_CACHE_LOCK' = NoWorker
    /\ pc' = [pc EXCEPT ![w] = "agent"]
    /\ idx' = [idx EXCEPT ![w] = 1]
    /\ UNCHANGED <<digest, process, matching, batch, agents, codec, feed, now, entry, original_content,
                   existing_agent_contents, new_agents, agent_results,
                   ordered_content, outcome>>

\* A variant of NextPc that leaves the loop after the first agent
NextPcStop(w) == "finish"

\* After an agent's result is stored: the next agent, or back in process_entry
NextPc(w) == IF idx[w] + 1 > Len(new_agents[w]) THEN "finish" ELSE "agent"

\* _process_with_single_agent lines 119-121: the agent's rules exclude the entry
AgentFiltered(w) ==
    /\ pc[w] = "agent"
    /\ LET name == new_agents[w][idx[w]]
           agent == AgentOf(name)
       IN  /\ ~match_rules(original_entry(w), agent.allow_rules, agent.deny_rules)
           /\ agent_results' = [agent_results EXCEPT ![w] =
                                   DictSet(@, name, AgentResult_filtered)]
           /\ calls' = [calls EXCEPT ![w].matched = Append(@, name)]
    /\ pc' = [pc EXCEPT ![w] = NextPc(w)]
    /\ idx' = [idx EXCEPT ![w] = @ + 1]
    /\ UNCHANGED <<digest, process, matching, batch, agents, codec, feed, now, ENTRY_CACHE, ENTRY_CACHE_LOCK, entry,
                   original_content, existing_agent_contents, new_agents,
                   ordered_content, outcome, gate>>

\* A variant of AgentCallLLM that sends the request before looking at the rules
AgentCallLLMUnmatched(w) ==
    /\ pc[w] = "agent"
    /\ calls' = [calls EXCEPT ![w].matched = Append(@, new_agents[w][idx[w]]),
                              ![w].llm = Append(@, new_agents[w][idx[w]])]
    /\ pc' = [pc EXCEPT ![w] = "llm"]
    /\ UNCHANGED <<digest, process, matching, batch, agents, codec, feed, now, ENTRY_CACHE,
                   ENTRY_CACHE_LOCK, entry, Locals, outcome, gate>>

\* lines 119-126 and _get_agent_content up to line 173: the rules match and the
\* request to the LLM is sent
AgentCallLLM(w) ==
    /\ pc[w] = "agent"
    /\ LET name == new_agents[w][idx[w]]
           agent == AgentOf(name)
       IN  /\ match_rules(original_entry(w), agent.allow_rules, agent.deny_rules)
           /\ calls' = [calls EXCEPT ![w].matched = Append(@, name),
                                     ![w].llm = Append(@, name)]
    /\ pc' = [pc EXCEPT ![w] = "llm"]
    /\ UNCHANGED <<digest, process, matching, batch, agents, codec, feed, now, ENTRY_CACHE, ENTRY_CACHE_LOCK, entry,
                   Locals, outcome, gate>>

\* The result _process_with_single_agent returns for an LLM response
SingleAgentResult(agent, response) ==
    LET completion == get_completion(response)
    IN  IF completion.ok
        THEN AgentResult_success(format_agent_content(agent, completion.text))
        ELSE AgentResult_error(completion.error)

\* line 173 returns or raises; lines 127-143 and line 101
LLMReturn(w, response) ==
    /\ pc[w] = "llm"
    /\ LET name == new_agents[w][idx[w]]
       IN  agent_results' = [agent_results EXCEPT ![w] =
               DictSet(@, name, SingleAgentResult(AgentOf(name), response))]
    /\ calls' = [calls EXCEPT ![w].responses =
                     Append(@, <<new_agents[w][idx[w]], response>>)]
    /\ pc' = [pc EXCEPT ![w] = NextPc(w)]
    /\ idx' = [idx EXCEPT ![w] = @ + 1]
    /\ UNCHANGED <<digest, process, matching, batch, agents, codec, feed, now, ENTRY_CACHE, ENTRY_CACHE_LOCK, entry,
                   original_content, existing_agent_contents, new_agents,
                   ordered_content, outcome, gate>>

\* A variant of WritesBack that writes back whenever an agent was attempted
WritesBackAnyResult(results) == results # <<>>

\* Whether process_entry writes back (line 56)
WritesBack(results) == NewAgentContents(results) # <<>>

\* process_entry lines 54-66 when nothing is written back
FinishUnchanged(w) ==
    /\ pc[w] = "finish"
    /\ ~WritesBack(agent_results[w])
    /\ pc' = [pc EXCEPT ![w] = "done"]
    /\ outcome' = [outcome EXCEPT ![w] =
                      [kind |-> "return", results |-> agent_results[w]]]
    /\ UNCHANGED <<digest, process, matching, batch, agents, codec, feed, now, ENTRY_CACHE, ENTRY_CACHE_LOCK, entry,
                   Locals, calls, gate>>

\* process_entry lines 54-61: the rebuilt body is sent to update_entry
FinishUpdate(w) ==
    /\ pc[w] = "finish"
    /\ WritesBack(agent_results[w])
    /\ LET body == OrderedContent(existing_agent_contents[w], agent_results[w],
                                  original_content[w])
       IN  /\ ordered_content' = [ordered_content EXCEPT ![w] = body]
           /\ calls' = [calls EXCEPT ![w].update = Append(@, body)]
    /\ pc' = [pc EXCEPT ![w] = "update"]
    /\ UNCHANGED <<digest, process, matching, batch, agents, codec, feed, now, ENTRY_CACHE, ENTRY_CACHE_LOCK, entry,
                   original_content, existing_agent_contents, new_agents,
                   agent_results, idx, outcome, gate>>

\* A variant of UpdateFailed that swallows the exception
UpdateFailedSwallowed(results) == [kind |-> "return", results |-> results]

\* What process_entry does when update_entry raises (lines 68-70)
UpdateFailed(results) == [kind |-> "raise", results |-> <<>>]

\* update_entry returns: Miniflux stores the body; lines 62-66
UpdateReturn(w) ==
    /\ pc[w] = "update"
    /\ feed' = [feed EXCEPT ![entry[w].id] = ordered_content[w]]
    /\ pc' = [pc EXCEPT ![w] = "done"]
    /\ outcome' = [outcome EXCEPT ![w] =
                      [kind |-> "return", results |-> agent_results[w]]]
    /\ calls' = [calls EXCEPT ![w].update_result = "ok"]
    /\ UNCHANGED <<digest, process, matching, batch, agents, codec, now, ENTRY_CACHE, ENTRY_CACHE_LOCK, entry, Locals,
                   gate>>

\* A variant of UpdateRaise that forgets the article so that it is retried
UpdateRaiseForgets(w) ==
    /\ pc[w] = "update"
    /\ pc' = [pc EXCEPT ![w] = "done"]
    /\ outcome' = [outcome EXCEPT ![w] = UpdateFailed(agent_results[w])]
    /\ calls' = [calls EXCEPT ![w].update_result = "raise"]
    /\ ENTRY_CACHE' = SelectSeq(ENTRY_CACHE, LAMBDA link : link[1] # entry[w].id)
    /\ UNCHANGED <<digest, process, matching, batch, agents, codec, feed, now, ENTRY_CACHE_LOCK, entry,
                   Locals, gate>>

\* update_entry raises: lines 68-70 log and re-raise
UpdateRaise(w) ==
    /\ pc[w] = "update"
    /\ pc' = [pc EXCEPT ![w] = "done"]
    /\ outcome' = [outcome EXCEPT ![w] = UpdateFailed(agent_results[w])]
    /\ calls' = [calls EXCEPT ![w].update_result = "raise"]
    /\ UNCHANGED <<digest, process, matching, batch, agents, codec, feed, now, ENTRY_CACHE, ENTRY_CACHE_LOCK, entry,
                   Locals, gate>>

\* The future is collected and the worker is free again
Collect(w) ==
    /\ pc[w] = "done"
    /\ pc' = [pc EXCEPT ![w] = "idle"]
    /\ entry' = [entry EXCEPT ![w] = NoEntry]
    /\ original_content' = [original_content EXCEPT ![w] = <<>>]
    /\ existing_agent_contents' = [existing_agent_contents EXCEPT ![w] = <<>>]
    /\ new_agents' = [new_agents EXCEPT ![w] = <<>>]
    /\ agent_results' = [agent_results EXCEPT ![w] = <<>>]
    /\ idx' = [idx EXCEPT ![w] = 0]
    /\ ordered_content' = [ordered_content EXCEPT ![w] = <<>>]
    /\ outcome' = [outcome EXCEPT ![w] = NoOutcome]
    /\ calls' = [calls EXCEPT ![w] = NoCalls]
    /\ UNCHANGED <<digest, process, matching, batch, agents, codec, feed, now, ENTRY_CACHE, ENTRY_CACHE_LOCK, gate>>

\* Time passes
Tick ==
    /\ now < MaxTime
    /\ now' = now + 1
    /\ UNCHANGED <<digest, process, matching, batch, agents, codec, feed, ENTRY_CACHE, ENTRY_CACHE_LOCK, pc, entry,
                   Locals, outcome, calls, gate>>

----------------------------------------------------------------------------
(* The codec applied to given values *)

PairValue(agent_contents, original) ==
    [kind |-> "pair", agent_contents |-> agent_contents, original |-> original,
     content |-> <<>>]

BodyValue(content) ==
    [kind |-> "body", agent_contents |-> <<>>, original |-> <<>>, content |-> content]

Last(s) == s[Len(s)]

\* build_ordered_content applied to the pair last produced or given
CodecBuild ==
    /\ codec # <<>>
    /\ Len(codec) <= MaxCodecSteps
    /\ Last(codec).kind = "pair"
    /\ codec' = Append(codec, BodyValue(
                    build_ordered_content(Last(codec).agent_contents,
                                          Last(codec).original)))
    /\ UNCHANGED <<digest, process, matching, batch, agents, feed, now, ENTRY_CACHE, ENTRY_CACHE_LOCK, pc, entry,
                   Locals, outcome, calls, gate>>

\* parse_entry_content applied to the body last produced or given
CodecParse ==
    /\ codec # <<>>
    /\ Len(codec) <= MaxCodecSteps
    /\ Last(codec).kind = "body"
    /\ LET parsed == parse_entry_content(Last(codec).content)
       IN  codec' = Append(codec, PairValue(parsed.agents, parsed.original))
    /\ UNCHANGED <<digest, process, matching, batch, agents, feed, now, ENTRY_CACHE, ENTRY_CACHE_LOCK, pc, entry,
                   Locals, outcome, calls, gate>>

----------------------------------------------------------------------------
(* Configurations and inputs *)

SUMMARY == "summary"
TRANSLATE == "translate"

Agent(name, template, allow_rules, deny_rules) ==
    [name |-> name, template |-> template, allow_rules |-> allow_rules,
     deny_rules |-> deny_rules]

RegexRule(field, lit) ==
    [eq |-> TRUE, field |-> field, pattern |-> [k |-> "re", lit |-> lit]]

\* The characters of an operator name followed by ':'
OperatorPrefix(op) ==
    CASE op = "gt" -> GT
      [] op = "ge" -> GE
      [] op = "lt" -> LT
      [] op = "le" -> LE
      [] op = "eq" -> EQ
      [] op = "between" -> BETWEEN

\* The rule string 'EntryContentLength=<op>:<lo>' for a one-digit lo
LengthRule(op, lo) ==
    [eq |-> TRUE, field |-> FIELD_ENTRY_CONTENT_LENGTH,
     pattern |-> [k |-> "op", text |-> OperatorPrefix(op) \o <<DIGITS[lo + 1]>>]]

WRAP == <<"c", "<hr>">>

SummaryAgent == Agent(SUMMARY, <<>>, <<>>, <<>>)

\* translate wraps its output and skips articles of more than one text token
TranslateAgent ==
    Agent(TRANSLATE, <<CONTENT_PLACEHOLDER, WRAP>>, <<>>, <<LengthRule("gt", 1)>>)

\* translate only for articles whose title holds x
TranslateByTitle ==
    Agent(TRANSLATE, <<CONTENT_PLACEHOLDER, WRAP>>,
          <<RegexRule(FIELD_ENTRY_TITLE, <<X>>)>>, <<>>)

\* summary only for articles whose title holds x
SummaryByTitle == Agent(SUMMARY, <<>>, <<RegexRule(FIELD_ENTRY_TITLE, <<X>>)>>, <<>>)

Configs ==
    {<<SummaryAgent, TranslateAgent>>,
     <<TranslateByTitle, SummaryAgent>>,
     <<SummaryAgent>>}

BodyTokens == {X, SP, MARKER(SUMMARY), MARKER(TRANSLATE), LEGACY_MARKER(SUMMARY)}

Bodies == SeqsUpTo(BodyTokens, MaxBodyLen)

LLMResponses ==
    {[kind |-> "raise", content |-> <<>>],
     [kind |-> "no_choices", content |-> <<>>],
     [kind |-> "content", content |-> <<>>],
     [kind |-> "content", content |-> <<SP>>],
     [kind |-> "content", content |-> <<X>>]}

\* No call into the rule matcher is under study
NoMatching == [call |-> "none"]

\* No batch run is under study
NoBatch == [pc |-> "none"]

\* No process around the operation: it is called on its own
NoProcess == [scheduler |-> "none"]

\* No digest is under study
NoDigest == [job |-> "none"]

InitWorkers ==
    /\ pc = [w \in Workers |-> "idle"]
    /\ entry = [w \in Workers |-> NoEntry]
    /\ original_content = [w \in Workers |-> <<>>]
    /\ existing_agent_contents = [w \in Workers |-> <<>>]
    /\ new_agents = [w \in Workers |-> <<>>]
    /\ agent_results = [w \in Workers |-> <<>>]
    /\ idx = [w \in Workers |-> 0]
    /\ ordered_content = [w \in Workers |-> <<>>]
    /\ outcome = [w \in Workers |-> NoOutcome]
    /\ calls = [w \in Workers |-> NoCalls]
    /\ now = 0
    /\ ENTRY_CACHE = <<>>
    /\ ENTRY_CACHE_LOCK = NoWorker
    /\ gate = [id \in DOMAIN feed |-> [at |-> 0 - 1, evicted |-> FALSE]]

\* One worker, one article with any body, any configuration: repeated passes
InitPasses ==
    /\ agents \in Configs
    /\ codec = <<>>
    /\ feed \in [{1} -> Bodies]
    /\ InitWorkers
    /\ matching = NoMatching
    /\ batch = NoBatch
    /\ process = NoProcess
    /\ digest = NoDigest

\* The whole pool, unannotated articles, one agent that takes the first article
\* and filters the second
Init ==
    /\ agents = <<SummaryByTitle>>
    /\ codec = <<>>
    /\ feed = [id \in EntryIds |-> <<X>>]
    /\ InitWorkers
    /\ matching = NoMatching
    /\ batch = NoBatch
    /\ process = NoProcess
    /\ digest = NoDigest

ConcurrentResponses ==
    {[kind |-> "raise", content |-> <<>>],
     [kind |-> "content", content |-> <<X>>]}

Step(w, responses) ==
    \/ \E id \in DOMAIN feed : Submit(w, id)
    \/ Begin(w)
    \/ AcquireLock(w)
    \/ CacheHit(w)
    \/ CacheMiss(w)
    \/ CacheInsert(w)
    \/ AgentFiltered(w)
    \/ AgentCallLLM(w)
    \/ \E response \in responses : LLMReturn(w, response)
    \/ FinishUnchanged(w)
    \/ FinishUpdate(w)
    \/ UpdateReturn(w)
    \/ UpdateRaise(w)
    \/ Collect(w)

Next == Tick \/ \E w \in Workers : Step(w, ConcurrentResponses)

Spec == Init /\ [][Next]_vars

NextPasses == Tick \/ Step("w1", LLMResponses)

SpecPasses == InitPasses /\ [][NextPasses]_vars

\* An agent whose name the marker patterns cannot capture
QuotedAgent == Agent(BadName, <<>>, <<>>, <<>>)

CodecConfigs == Configs \cup {<<QuotedAgent, SummaryAgent>>}

ValueTokens == {X, SP, MARKER(SUMMARY)}

Values == SeqsUpTo(ValueTokens, MaxValLen)

\* The bodies given to parse_entry_content: markers of both shapes, of an agent
\* every configuration holds and of one some configurations lack
CodecBodies == SeqsUpTo(BodyTokens \cup {LEGACY_MARKER(TRANSLATE)}, MaxBodyLen)

\* The keys of the maps given to build_ordered_content under a configuration:
\* its first agent and one more name, configured or not
CodecKeys == {agents[1].name, IF agents[1].name = TRANSLATE THEN SUMMARY ELSE TRANSLATE}

\* The codec alone: any configuration, and either a map and an original content
\* to build from, or a body to parse
InitCodec ==
    /\ agents \in CodecConfigs
    /\ \/ \E agent_contents \in DictsOver(CodecKeys, Values), original \in Values :
              codec = <<PairValue(agent_contents, original)>>
       \/ \E content \in CodecBodies : codec = <<BodyValue(content)>>
    /\ feed = <<>>
    /\ InitWorkers
    /\ matching = NoMatching
    /\ batch = NoBatch
    /\ process = NoProcess
    /\ digest = NoDigest

NextCodec == CodecBuild \/ CodecParse

SpecCodec == InitCodec /\ [][NextCodec]_vars

----------------------------------------------------------------------------
(* core/rule_matcher.py applied to given arguments *)

\* The result of the call under study is stored once
Returned == matching.call # "none" /\ matching.result # <<>>

\* match_rules(entry, allow_rules, deny_rules)
MatchRules ==
    /\ matching.call = "match_rules"
    /\ matching.result = <<>>
    /\ matching' = [matching EXCEPT !.result =
           <<match_rules(matching.entry, matching.allow_rules, matching.deny_rules)>>]
    /\ UNCHANGED <<digest, process, batch, agents, codec, feed, now, ENTRY_CACHE, ENTRY_CACHE_LOCK, pc,
                   entry, Locals, outcome, calls, gate>>

\* _match_any_rule(entry, rules)
MatchAnyRule ==
    /\ matching.call = "match_any_rule"
    /\ matching.result = <<>>
    /\ matching' = [matching EXCEPT !.result =
           <<match_any_rule(matching.entry, matching.rules)>>]
    /\ UNCHANGED <<digest, process, batch, agents, codec, feed, now, ENTRY_CACHE, ENTRY_CACHE_LOCK, pc,
                   entry, Locals, outcome, calls, gate>>

\* _match_content_length(entry, operator)
MatchContentLength ==
    /\ matching.call = "match_content_length"
    /\ matching.result = <<>>
    /\ matching' = [matching EXCEPT !.result =
           <<match_content_length(matching.entry, matching.operator)>>]
    /\ UNCHANGED <<digest, process, batch, agents, codec, feed, now, ENTRY_CACHE, ENTRY_CACHE_LOCK, pc,
                   entry, Locals, outcome, calls, gate>>

\* parse_rule(rule_string)
ParseRule ==
    /\ matching.call = "parse_rule"
    /\ matching.result = <<>>
    /\ matching' = [matching EXCEPT !.result = <<parse_rule(matching.rule_string)>>]
    /\ UNCHANGED <<digest, process, batch, agents, codec, feed, now, ENTRY_CACHE, ENTRY_CACHE_LOCK, pc,
                   entry, Locals, outcome, calls, gate>>

\* str(n)
RECURSIVE IntText(_)
IntText(n) ==
    IF n < 0 THEN <<"-">> \o IntText(0 - n)
    ELSE IF n < 10 THEN <<DIGITS[n + 1]>>
    ELSE IntText(n \div 10) \o <<DIGITS[(n % 10) + 1]>>

\* A content of n tokens
RECURSIVE ContentOfLength(_)
ContentOfLength(n) == IF n = 0 THEN <<>> ELSE <<X>> \o ContentOfLength(n - 1)

\* The entries given to the rule matcher
RuleEntries ==
    {[id |-> 1, title |-> title, content |-> ContentOfLength(n),
      feed_site_url |-> site_url] :
        title \in {<<X>>, <<Y>>}, n \in 0..MaxLength, site_url \in {<<X>>, <<Y>>}}

\* The thresholds written in operator expressions
Thresholds == (0 - 1)..(MaxLength + 1) \cup {10}

OperatorRule(text) ==
    [eq |-> TRUE, field |-> FIELD_ENTRY_CONTENT_LENGTH,
     pattern |-> [k |-> "op", text |-> text]]

\* Well-formed operator expressions
ValidOperators ==
    {OperatorPrefix(op) \o IntText(n) : op \in {"gt", "ge", "lt", "le", "eq"},
                                        n \in Thresholds}
    \cup {BETWEEN \o IntText(lo) \o <<",">> \o IntText(hi) :
              lo \in Thresholds, hi \in Thresholds}
    \cup {GE \o <<" ">> \o IntText(1), BETWEEN \o IntText(1) \o <<",", " ">> \o IntText(2)}

\* Operator expressions _match_content_length rejects: a threshold that is no
\* integer, a between without comma or with a bound that is no integer, an
\* unknown operator
InvalidOperators ==
    {GT \o <<"x">>, GT, EQ \o <<"1", ".", "0">>,
     BETWEEN \o <<"1">>, BETWEEN \o <<"1", ",">>, BETWEEN \o <<",", "1">>,
     BETWEEN \o <<"1", ",", "x">>, BETWEEN \o <<"1", ",", "2", ",", "3">>,
     <<"n", "e", ":", "1">>, <<"G", "T", ":", "1">>, <<"1">>}

\* Rule strings that are in order
TitleHasX == RegexRule(FIELD_ENTRY_TITLE, <<X>>)
SiteHasX == RegexRule(FIELD_FEED_SITE_URL, <<X>>)
AnyTitle == RegexRule(FIELD_ENTRY_TITLE, <<>>)
NeverMatchRule == [eq |-> TRUE, field |-> FIELD_NEVER_MATCH, pattern |-> [k |-> "empty"]]

\* 'FeedSiteURL=x'
SiteURLHasX == RegexRule("FeedSiteURL", <<X>>)

\* Malformed rule strings
MissingEquals == [eq |-> FALSE, field |-> "", pattern |-> [k |-> "empty"]]
UnsupportedField == RegexRule("EntryDate", <<>>)
EmptyPattern == [eq |-> TRUE, field |-> FIELD_ENTRY_TITLE, pattern |-> [k |-> "empty"]]
InvalidRegex == [eq |-> TRUE, field |-> FIELD_ENTRY_TITLE, pattern |-> [k |-> "badre"]]
NonIntegerThreshold == OperatorRule(GT \o <<"x">>)
MalformedBetween == OperatorRule(BETWEEN \o <<"1">>)
UnknownOperator == OperatorRule(<<"n", "e", ":", "1">>)

MalformedRules ==
    {MissingEquals, UnsupportedField, EmptyPattern, InvalidRegex, NonIntegerThreshold,
     MalformedBetween, UnknownOperator}

\* The rules of the allow and deny lists given to match_rules
ListRules == {TitleHasX, SiteHasX, LengthRule("ge", 2), InvalidRegex}

\* The rules of the lists given to _match_any_rule
AnyRules ==
    MalformedRules
    \cup {TitleHasX, SiteHasX, SiteURLHasX, LengthRule("le", 1), NeverMatchRule}

\* The rule strings given to parse_rule
RuleStrings ==
    {[eq |-> eq, field |-> field, pattern |-> pattern] :
        eq \in BOOLEAN,
        field \in SUPPORTED_FIELDS \cup {"FeedSiteURL", "EntryDate", ""},
        pattern \in {[k |-> "empty"], [k |-> "re", lit |-> <<X>>], [k |-> "badre"],
                     [k |-> "op", text |-> GT \o <<"1">>]}}

Matching(call) ==
    [call |-> call, entry |-> NoEntry, allow_rules |-> <<>>, deny_rules |-> <<>>,
     rules |-> <<>>, operator |-> [k |-> "empty"], rule_string |-> MissingEquals,
     result |-> <<>>]

\* The rule matcher alone: one call of one of its functions on any arguments
InitRules ==
    /\ process = NoProcess
    /\ digest = NoDigest
    /\ agents = <<SummaryAgent>>
    /\ codec = <<>>
    /\ feed = <<>>
    /\ InitWorkers
    /\ batch = NoBatch
    /\ \/ \E e \in RuleEntries, allow_rules \in SeqsUpTo(ListRules, MaxRules),
             deny_rules \in SeqsUpTo(ListRules, MaxRules) :
              matching = [Matching("match_rules") EXCEPT
                             !.entry = e, !.allow_rules = allow_rules,
                             !.deny_rules = deny_rules]
       \/ \E e \in RuleEntries, rules \in SeqsUpTo(AnyRules, MaxRules) :
              matching = [Matching("match_any_rule") EXCEPT !.entry = e, !.rules = rules]
       \/ \E e \in RuleEntries, text \in ValidOperators \cup InvalidOperators :
              matching = [Matching("match_content_length") EXCEPT
                             !.entry = e, !.operator = [k |-> "op", text |-> text]]
       \/ \E rule_string \in RuleStrings :
              matching = [Matching("parse_rule") EXCEPT !.rule_string = rule_string]

NextRules == MatchRules \/ MatchAnyRule \/ MatchContentLength \/ ParseRule

SpecRules == InitRules /\ [][NextRules]_vars

----------------------------------------------------------------------------
(* core/entry_handler.py: one run of handle_unread_entries *)
(* batch is a record:                                                      *)
(*   pc         "fetch" (line 55), "wait" (inside _wait_for_completion),   *)
(*              "done" (handle_unread_entries has ended)                   *)
(*   unread     the ids of the unread articles the feed service holds      *)
(*   offset, total, entries   locals of handle_unread_entries              *)
(*   futures    id -> [state, outcome]: "none" (not submitted), "queued",  *)
(*              "running", "resolved" (process_entry returned or raised),  *)
(*              "collected" (seen by the as_completed loop)                *)
(*   page_of    id -> number of the page it was submitted with (0: none)   *)
(*   counts     total_count, updated_count, partial_count, error_count     *)
(*   logged     the Summary lines logged so far, oldest first              *)
(*   requests   the offsets asked of the feed service, oldest first        *)
(*   result     "returned" or "raised" once handle_unread_entries ended    *)
(*   fetch_failed   whether get_entries raised                             *)
(*   stuck      the id of the article whose LLM call never returns (0: none) *)

\* The outcomes process_entry can end with: an outcome map, or an exception
ArticleOutcomes ==
    {[kind |-> "raise", results |-> <<>>]}
    \cup {[kind |-> "return", results |-> results] : results \in
            {<<>>,
             <<<<SUMMARY, AgentResult_success(<<X>>)>>>>,
             <<<<SUMMARY, AgentResult_filtered>>>>,
             <<<<SUMMARY, AgentResult_error("APIError")>>>>,
             <<<<SUMMARY, AgentResult_success(<<X>>)>>,
               <<TRANSLATE, AgentResult_filtered>>>>,
             <<<<SUMMARY, AgentResult_success(<<X>>)>>,
               <<TRANSLATE, AgentResult_error("APIError")>>>>,
             <<<<SUMMARY, AgentResult_error("APIError")>>,
               <<TRANSLATE, AgentResult_filtered>>>>}}

\* sum(r.is_success for r in values)
CountSuccess(results) ==
    Cardinality({i \in DOMAIN results : is_success(results[i][2])})

\* sum(r.is_error for r in values)
CountError(results) ==
    Cardinality({i \in DOMAIN results : is_error(results[i][2])})

\* A variant of Classify that counts every outcome as processed
ClassifyAllOutcomes(article_outcome) ==
    IF article_outcome.kind = "raise" THEN "error"
    ELSE LET success == CountSuccess(article_outcome.results)
             error == CountError(article_outcome.results)
             processed == Len(article_outcome.results)
         IN  IF processed = 0 THEN "none"
             ELSE IF success = processed THEN "updated"
             ELSE IF error = processed THEN "error"
             ELSE "partial"

\* The counter one pass of the as_completed loop increments (lines 142-159)
Classify(article_outcome) ==
    IF article_outcome.kind = "raise" THEN "error"
    ELSE LET success == CountSuccess(article_outcome.results)
             error == CountError(article_outcome.results)
             processed == success + error
         IN  IF processed = 0 THEN "none"
             ELSE IF success = processed THEN "updated"
             ELSE IF error = processed THEN "error"
             ELSE "partial"

\* A variant of NewCounts that carries the counters over from page to page
CarriedCounts(counts, futures) ==
    [counts EXCEPT !.total_count = @ + Len(futures)]

\* _wait_for_completion lines 136-139
NewCounts(counts, futures) ==
    [total_count |-> Len(futures), updated_count |-> 0, partial_count |-> 0,
     error_count |-> 0]

NoCounts == [total_count |-> 0, updated_count |-> 0, partial_count |-> 0,
             error_count |-> 0]

NoFuture == [state |-> "none", outcome |-> NoOutcome]

\* The futures that are submitted and not resolved
InFlight(b) == {id \in DOMAIN b.futures : b.futures[id].state \in {"queued", "running"}}

\* The feed service's answer to get_entries(offset, limit): entries
PageOf(unread, offset) ==
    SubSeq(unread, offset + 1,
           IF offset + limit <= Len(unread) THEN offset + limit ELSE Len(unread))

\* A variant of AfterPage that goes on until the offset exceeds the total
AfterPageStrict(b) ==
    IF b.offset + limit > b.total
    THEN [b EXCEPT !.offset = @ + limit, !.pc = "done", !.result = "returned"]
    ELSE [b EXCEPT !.offset = @ + limit, !.pc = "fetch"]

\* handle_unread_entries lines 62-65, after a page
AfterPage(b) ==
    IF b.offset + limit >= b.total
    THEN [b EXCEPT !.offset = @ + limit, !.pc = "done", !.result = "returned"]
    ELSE [b EXCEPT !.offset = @ + limit, !.pc = "fetch"]

\* get_entries returns (lines 55-60, 96-102, 119-122, 136-139): the run ends on
\* an empty answer, otherwise every entry of the page is submitted to the pool
FetchPage ==
    /\ batch.pc = "fetch"
    /\ LET total == Len(batch.unread)
           entries == PageOf(batch.unread, batch.offset)
           asked == [batch EXCEPT !.requests = Append(@, batch.offset),
                                  !.total = total, !.entries = entries]
       IN  IF total = 0 \/ entries = <<>>
           THEN batch' = [asked EXCEPT !.pc = "done", !.result = "returned"]
           ELSE batch' = [asked EXCEPT
                    !.pc = "wait",
                    !.futures = [id \in DOMAIN @ |->
                                    IF InSeq(id, entries)
                                    THEN [state |-> "queued", outcome |-> NoOutcome]
                                    ELSE @[id]],
                    !.page_of = [id \in DOMAIN @ |->
                                    IF InSeq(id, entries) THEN Len(asked.requests)
                                    ELSE @[id]],
                    !.counts = NewCounts(@, entries)]
    /\ UNCHANGED <<digest, process, matching, agents, codec, feed, now, ENTRY_CACHE, ENTRY_CACHE_LOCK, pc,
                   entry, Locals, outcome, calls, gate>>

\* A variant of FetchFailed that lets the exception leave handle_unread_entries
FetchFailedEscapes(b) == [b EXCEPT !.pc = "done", !.result = "raised"]

\* What becomes of the run when get_entries raises: _fetch_entries_page logs
\* and re-raises (104-106), handle_unread_entries logs and ends (67-69)
FetchFailed(b) == [b EXCEPT !.pc = "done", !.result = "returned"]

\* get_entries raises
FetchRaises ==
    /\ batch.pc = "fetch"
    /\ batch' = FetchFailed([batch EXCEPT !.requests = Append(@, batch.offset),
                                          !.fetch_failed = TRUE])
    /\ UNCHANGED <<digest, process, matching, agents, codec, feed, now, ENTRY_CACHE, ENTRY_CACHE_LOCK, pc,
                   entry, Locals, outcome, calls, gate>>

\* A variant of StartArticle for a pool that runs one article at a time
StartArticleOneSlot(id) ==
    /\ batch.pc # "none"
    /\ id \in DOMAIN batch.futures
    /\ batch.futures[id].state = "queued"
    /\ \A i \in DOMAIN batch.futures : batch.futures[i].state # "running"
    /\ batch' = [batch EXCEPT !.futures[id].state = "running"]
    /\ UNCHANGED <<digest, process, matching, agents, codec, feed, now, ENTRY_CACHE,
                   ENTRY_CACHE_LOCK, pc, entry, Locals, outcome, calls, gate>>

\* A pool thread takes a submitted article: at most max_workers run at a time
StartArticle(id) ==
    /\ batch.pc # "none"
    /\ id \in DOMAIN batch.futures
    /\ batch.futures[id].state = "queued"
    /\ Cardinality({i \in DOMAIN batch.futures : batch.futures[i].state = "running"})
           < Cardinality(Workers)
    /\ batch' = [batch EXCEPT !.futures[id].state = "running"]
    /\ UNCHANGED <<digest, process, matching, agents, codec, feed, now, ENTRY_CACHE, ENTRY_CACHE_LOCK, pc,
                   entry, Locals, outcome, calls, gate>>

\* process_entry returns its outcome map or raises: the future resolves
ResolveArticle(id, article_outcome) ==
    /\ batch.pc # "none"
    /\ id \in DOMAIN batch.futures
    /\ batch.futures[id].state = "running"
    /\ id # batch.stuck
    /\ batch' = [batch EXCEPT !.futures[id] =
                    [state |-> "resolved", outcome |-> article_outcome]]
    /\ UNCHANGED <<digest, process, matching, agents, codec, feed, now, ENTRY_CACHE, ENTRY_CACHE_LOCK, pc,
                   entry, Locals, outcome, calls, gate>>

\* The counters after one more article of the given class
Counted(counts, class) ==
    CASE class = "updated" -> [counts EXCEPT !.updated_count = @ + 1]
      [] class = "partial" -> [counts EXCEPT !.partial_count = @ + 1]
      [] class = "error" -> [counts EXCEPT !.error_count = @ + 1]
      [] OTHER -> counts

\* A variant of Collected in which an exception of future.result() ends the run
CollectedOrAborted(b, id) ==
    IF b.futures[id].outcome.kind = "raise"
    THEN [b EXCEPT !.futures[id].state = "collected", !.pc = "done",
                   !.result = "returned"]
    ELSE [b EXCEPT !.futures[id].state = "collected",
                   !.counts = Counted(@, Classify(b.futures[id].outcome))]

\* One pass of the as_completed loop for the future of id (lines 141-160)
Collected(b, id) ==
    [b EXCEPT !.futures[id].state = "collected",
              !.counts = Counted(@, Classify(b.futures[id].outcome))]

\* as_completed yields a resolved future of the page
CollectFuture(id) ==
    /\ batch.pc = "wait"
    /\ InSeq(id, batch.entries)
    /\ batch.futures[id].state = "resolved"
    /\ batch' = Collected(batch, id)
    /\ UNCHANGED <<digest, process, matching, agents, codec, feed, now, ENTRY_CACHE, ENTRY_CACHE_LOCK, pc,
                   entry, Locals, outcome, calls, gate>>

\* A variant of PageResolved that is content with one collected future
PageResolvedAny(b) ==
    \E i \in DOMAIN b.entries : b.futures[b.entries[i]].state = "collected"

\* as_completed is exhausted: every future of the page has been yielded
PageResolved(b) ==
    \A i \in DOMAIN b.entries : b.futures[b.entries[i]].state = "collected"

\* The loop of _wait_for_completion ends: the Summary is logged (line 162) and
\* handle_unread_entries goes on to the next page or ends (lines 62-65)
PageDone ==
    /\ batch.pc = "wait"
    /\ PageResolved(batch)
    /\ batch' = AfterPage([batch EXCEPT !.logged = Append(@, batch.counts)])
    /\ UNCHANGED <<digest, process, matching, agents, codec, feed, now, ENTRY_CACHE, ENTRY_CACHE_LOCK, pc,
                   entry, Locals, outcome, calls, gate>>

\* The ids 1..n, in the order the feed service lists them (by id, descending)
RECURSIVE Descending(_)
Descending(n) == IF n = 0 THEN <<>> ELSE <<n>> \o Descending(n - 1)

\* One run of handle_unread_entries over any number of unread articles
InitBatch ==
    /\ agents = <<SummaryAgent, TranslateAgent>>
    /\ codec = <<>>
    /\ feed = <<>>
    /\ InitWorkers
    /\ matching = NoMatching
    /\ process = NoProcess
    /\ digest = NoDigest
    /\ \E n \in 0..MaxUnread :
           batch = [pc |-> "fetch", unread |-> Descending(n), offset |-> 0,
                    total |-> 0, entries |-> <<>>,
                    futures |-> [id \in 1..n |-> NoFuture],
                    page_of |-> [id \in 1..n |-> 0],
                    counts |-> NoCounts, logged |-> <<>>, requests |-> <<>>,
                    result |-> "none", fetch_failed |-> FALSE, stuck |-> 0]

NextBatch ==
    \/ FetchPage
    \/ FetchRaises
    \/ \E id \in 1..MaxUnread : StartArticle(id)
    \/ \E id \in 1..MaxUnread, article_outcome \in ArticleOutcomes :
           ResolveArticle(id, article_outcome)
    \/ \E id \in 1..MaxUnread : CollectFuture(id)
    \/ PageDone

SpecBatch == InitBatch /\ [][NextBatch]_vars

\* The pool threads run, process_entry ends (the LLM and the feed service
\* answer or time out), and the controller thread runs
SpecBatchFair == SpecBatch /\ WF_vars(NextBatch)

----------------------------------------------------------------------------
(* A run in which the LLM call of one article never returns *)

\* The outcomes of process_entry told apart where only its ending matters:
\* an exception, or an outcome map (the empty one)
MainOutcomes ==
    {o \in ArticleOutcomes : o.results = <<>>}

\* One run over at least one unread article; the feed service answers, and
\* process_entry of the article batch.stuck never ends
InitStuck ==
    /\ agents = <<SummaryAgent, TranslateAgent>>
    /\ codec = <<>>
    /\ feed = <<>>
    /\ InitWorkers
    /\ matching = NoMatching
    /\ process = NoProcess
    /\ digest = NoDigest
    /\ \E n \in 1..MaxUnread, id \in 1..MaxUnread :
           /\ id <= n
           /\ batch = [pc |-> "fetch", unread |-> Descending(n), offset |-> 0,
                       total |-> 0, entries |-> <<>>,
                       futures |-> [i \in 1..n |-> NoFuture],
                       page_of |-> [i \in 1..n |-> 0],
                       counts |-> NoCounts, logged |-> <<>>, requests |-> <<>>,
                       result |-> "none", fetch_failed |-> FALSE, stuck |-> id]

NextStuck ==
    \/ FetchPage
    \/ \E id \in 1..MaxUnread : StartArticle(id)
    \/ \E id \in 1..MaxUnread, article_outcome \in MainOutcomes :
           ResolveArticle(id, article_outcome)
    \/ \E id \in 1..MaxUnread : CollectFuture(id)
    \/ PageDone

\* The pool threads and the controller thread run, and every call but the
\* one of the stuck article returns
SpecStuck == InitStuck /\ [][NextStuck]_vars /\ WF_vars(NextStuck)

----------------------------------------------------------------------------
(* A run during which the unread listing of the feed service changes *)

\* Articles arrive or are read while the run goes on: the listing becomes any
\* other one of at most MaxUnread articles
FeedChanges ==
    /\ batch.pc \in {"fetch", "wait"}
    /\ \E n \in 0..MaxUnread :
           /\ n # Len(batch.unread)
           /\ batch' = [batch EXCEPT !.unread = Descending(n)]
    /\ UNCHANGED <<digest, process, matching, agents, codec, feed, now, ENTRY_CACHE,
                   ENTRY_CACHE_LOCK, pc, entry, Locals, outcome, calls, gate>>

InitPaging ==
    /\ agents = <<SummaryAgent, TranslateAgent>>
    /\ codec = <<>>
    /\ feed = <<>>
    /\ InitWorkers
    /\ matching = NoMatching
    /\ process = NoProcess
    /\ digest = NoDigest
    /\ \E n \in 0..MaxUnread :
           batch = [pc |-> "fetch", unread |-> Descending(n), offset |-> 0,
                    total |-> 0, entries |-> <<>>,
                    futures |-> [id \in 1..MaxUnread |-> NoFuture],
                    page_of |-> [id \in 1..MaxUnread |-> 0],
                    counts |-> NoCounts, logged |-> <<>>, requests |-> <<>>,
                    result |-> "none", fetch_failed |-> FALSE, stuck |-> 0]

\* The steps of the controller thread and of the pool threads
RunPaging ==
    \/ FetchPage
    \/ \E id \in 1..MaxUnread : StartArticle(id)
    \/ \E id \in 1..MaxUnread, article_outcome \in MainOutcomes :
           ResolveArticle(id, article_outcome)
    \/ \E id \in 1..MaxUnread : CollectFuture(id)
    \/ PageDone

NextPaging == RunPaging \/ FetchRaises \/ FeedChanges

\* The threads run and every call of process_entry ends; the feed service may
\* fail and its listing may change at any time
SpecPaging == InitPaging /\ [][NextPaging]_vars /\ WF_vars(RunPaging)

----------------------------------------------------------------------------
(* main.py: the scheduler thread, the shutdown signal and the pool *)
(* process is a record:                                                    *)
(*   shutdown_event   whether shutdown_event is set                        *)
(*   scheduler        "loop" (run_scheduler is in its while loop),         *)
(*                    "job" (run_pending is inside handle_unread_entries), *)
(*                    "stopped" (run_scheduler has returned)               *)
(*   executor         "open", or "shut" once shutdown_executor returned    *)
(*   exited           whether main has reached sys.exit(0)                 *)
(*   set_at           the number of page requests made when the event was  *)
(*                    set (-1: not set)                                    *)
(*   set_pc           where handle_unread_entries was when it was set      *)

\* handle_shutdown (line 66), or one of the threads failing (lines 29, 59)
SetShutdown ==
    /\ process.scheduler # "none"
    /\ ~process.shutdown_event
    /\ ~process.exited
    /\ process' = [process EXCEPT !.shutdown_event = TRUE,
                                  !.set_at = Len(batch.requests),
                                  !.set_pc = batch.pc]
    /\ UNCHANGED <<digest, matching, batch, agents, codec, feed, now, ENTRY_CACHE,
                   ENTRY_CACHE_LOCK, pc, entry, Locals, outcome, calls, gate>>

\* run_scheduler lines 51-52: the event is not set and the job is pending, so
\* run_pending calls handle_unread_entries in the scheduler thread
RunPending ==
    /\ process.scheduler = "loop"
    /\ ~process.shutdown_event
    /\ batch.pc = "idle"
    /\ process' = [process EXCEPT !.scheduler = "job"]
    /\ batch' = [batch EXCEPT !.pc = "fetch"]
    /\ UNCHANGED <<digest, matching, agents, codec, feed, now, ENTRY_CACHE,
                   ENTRY_CACHE_LOCK, pc, entry, Locals, outcome, calls, gate>>

\* handle_unread_entries has ended: run_pending returns into the while loop
JobReturns ==
    /\ process.scheduler = "job"
    /\ batch.pc = "done"
    /\ process' = [process EXCEPT !.scheduler = "loop"]
    /\ UNCHANGED <<digest, matching, batch, agents, codec, feed, now, ENTRY_CACHE,
                   ENTRY_CACHE_LOCK, pc, entry, Locals, outcome, calls, gate>>

\* run_scheduler lines 51 and 55: the loop test finds the event set
SchedulerStops ==
    /\ process.scheduler = "loop"
    /\ process.shutdown_event
    /\ process' = [process EXCEPT !.scheduler = "stopped"]
    /\ UNCHANGED <<digest, matching, batch, agents, codec, feed, now, ENTRY_CACHE,
                   ENTRY_CACHE_LOCK, pc, entry, Locals, outcome, calls, gate>>

\* main lines 127 and 132: the scheduler thread is joined, then
\* shutdown_executor waits for the pool (shutdown(wait=True), line 42)
ShutdownExecutor ==
    /\ process.scheduler = "stopped"
    /\ process.executor = "open"
    /\ InFlight(batch) = {}
    /\ process' = [process EXCEPT !.executor = "shut"]
    /\ UNCHANGED <<digest, matching, batch, agents, codec, feed, now, ENTRY_CACHE,
                   ENTRY_CACHE_LOCK, pc, entry, Locals, outcome, calls, gate>>

\* main line 138
Exit ==
    /\ process.executor = "shut"
    /\ ~process.exited
    /\ process' = [process EXCEPT !.exited = TRUE]
    /\ UNCHANGED <<digest, matching, batch, agents, codec, feed, now, ENTRY_CACHE,
                   ENTRY_CACHE_LOCK, pc, entry, Locals, outcome, calls, gate>>

\* The process after initialize_application, with the job scheduled
InitMain ==
    /\ agents = <<SummaryAgent, TranslateAgent>>
    /\ codec = <<>>
    /\ feed = <<>>
    /\ InitWorkers
    /\ matching = NoMatching
    /\ digest = NoDigest
    /\ process = [shutdown_event |-> FALSE, scheduler |-> "loop",
                  executor |-> "open", exited |-> FALSE, set_at |-> 0 - 1,
                  set_pc |-> "none"]
    /\ \E n \in 0..MaxUnread :
           batch = [pc |-> "idle", unread |-> Descending(n), offset |-> 0,
                    total |-> 0, entries |-> <<>>,
                    futures |-> [id \in 1..n |-> NoFuture],
                    page_of |-> [id \in 1..n |-> 0],
                    counts |-> NoCounts, logged |-> <<>>, requests |-> <<>>,
                    result |-> "none", fetch_failed |-> FALSE, stuck |-> 0]

NextMain ==
    \/ SetShutdown
    \/ RunPending
    \/ JobReturns
    \/ SchedulerStops
    \/ ShutdownExecutor
    \/ Exit
    \/ FetchPage
    \/ FetchRaises
    \/ \E id \in 1..MaxUnread : StartArticle(id)
    \/ \E id \in 1..MaxUnread, article_outcome \in MainOutcomes :
           ResolveArticle(id, article_outcome)
    \/ \E id \in 1..MaxUnread : CollectFuture(id)
    \/ PageDone

SpecMain == InitMain /\ [][NextMain]_vars

----------------------------------------------------------------------------
(* Properties *)

\* The map decoded from the body a worker was given
Decoded(w) == parse_entry_content(entry[w].content).agents

Started(w) == pc[w] \notin {"idle", "start"}

EmptyOutcome == [kind |-> "return", results |-> <<>>]

\* C1: process_entry never rule-matches and never calls the LLM for an agent
\* whose name is a key of the map decoded from the body; when every configured
\* agent is such a key it makes no LLM call and no update_entry call, does not
\* even consult the dedup cache, and returns the empty outcome map.
C1_NeverRerun ==
    \A w \in Workers :
        Started(w) =>
            /\ \A name \in DictKeys(Decoded(w)) :
                   ~InSeq(name, calls[w].matched) /\ ~InSeq(name, calls[w].llm)
            /\ ConfiguredNames \subseteq DictKeys(Decoded(w)) =>
                   /\ pc[w] = "done"
                   /\ outcome[w] = EmptyOutcome
                   /\ calls[w] = NoCalls

\* C1 witness: a fully annotated article is resubmitted while the dedup cache
\* still holds its id, and comes back with the empty outcome map
C1_Witness ==
    \E w \in Workers :
        /\ pc[w] = "done"
        /\ ConfiguredNames \subseteq DictKeys(Decoded(w))
        /\ cache_contains(ENTRY_CACHE, entry[w].id, now)
        /\ outcome[w] = EmptyOutcome

\* The id was inserted, less than the ttl ago, and not evicted since
Remembered(id) ==
    /\ gate[id].at >= 0
    /\ now < gate[id].at + CACHE_TTL
    /\ ~gate[id].evicted

Running(w) == pc[w] \in {"agent", "llm", "finish", "update"}

\* C3 as claimed: no article id ever has two workers running its agents or
\* writing it back at the same time.
C3_NeverTwoRunning ==
    \A v, w \in Workers :
        (v # w /\ Running(v) /\ Running(w)) => entry[v].id # entry[w].id

\* C3 amended: a worker passes the gate for an article that another worker is
\* still running only if the link that other worker inserted has expired, or
\* has been evicted for room; so among the submissions of one id whose gate
\* checks fall within one ttl window without eviction exactly one runs agents.
C3_OneRunnerPerWindow ==
    [][\A v, w \in Workers :
          (/\ v # w
           /\ pc[w] = "insert" /\ pc'[w] = "agent"
           /\ Running(v)
           /\ entry[v].id = entry[w].id)
          => \/ now >= calls[v].at + CACHE_TTL
             \/ calls[v].lost]_vars

\* C3 witness: one worker runs the agents of an article while the other, given
\* the same article within the ttl, has been turned away at the gate
C3_Witness ==
    \E v, w \in Workers :
        /\ v # w
        /\ Running(v)
        /\ pc[w] = "done"
        /\ entry[v].id = entry[w].id
        /\ calls[w].seen = "hit"

----------------------------------------------------------------------------
(* Properties of the write-back and of failures *)

\* process_entry of worker w got past the agents loop
PastAgents(w) == pc[w] \in {"finish", "update", "done"} /\ calls[w].seen = "miss"

\* process_entry of worker w has called update_entry
Updating(w) == pc[w] \in {"update", "done"} /\ calls[w].update # <<>>

SomeSuccess(results) == \E i \in DOMAIN results : is_success(results[i][2])

\* The blocks of current format in a body that decoding recognises: positions
\* of current-format markers of configured names with text before them, the
\* last such marker of each name
CurrentBlocks(content) ==
    {p \in DOMAIN content :
        /\ IsMarkerMatch(content[p])
        /\ content[p] = MARKER(MatchName(content[p]))
        /\ MatchName(content[p]) \in ConfiguredNames
        /\ \A q \in DOMAIN content :
               (q > p /\ IsMarkerMatch(content[q]))
                   => MatchName(content[q]) # MatchName(content[p])}

\* Where the text of the block ending at marker p starts
BlockStart(content, p) ==
    LET before == {q \in 1..(p - 1) : IsMarkerMatch(content[q])}
    IN  IF before = {} THEN 1
        ELSE (CHOOSE q \in before : \A r \in before : r <= q) + 1

\* C6 as claimed: when update_entry is called for an article that carried blocks
\* of configured agents, only the missing agents were attempted and the body
\* written contains every such block verbatim, the text as it stood in the
\* article followed by its marker.
C6_PreservesVerbatim ==
    \A w \in Workers :
        Updating(w) =>
            /\ calls[w].matched = NewAgents(Decoded(w))
            /\ \A p \in CurrentBlocks(entry[w].content) :
                   strip(SubSeq(entry[w].content,
                                BlockStart(entry[w].content, p), p - 1)) # <<>>
                   => Contains(calls[w].update[1],
                               SubSeq(entry[w].content,
                                      BlockStart(entry[w].content, p), p))

\* The blocks the written body is to hold, in configuration order: for a name
\* decoded from the article its decoded text, for a name that succeeded now its
\* new content, each followed by the current marker of the name
RECURSIVE ExpectedBlocks(_, _, _)
ExpectedBlocks(names, decoded, results) ==
    IF names = <<>> THEN <<>>
    ELSE LET name == Head(names)
             block == IF DictHas(decoded, name)
                      THEN DictGet(decoded, name) \o <<MARKER(name)>>
                      ELSE IF DictHas(results, name) /\ is_success(DictGet(results, name))
                      THEN DictGet(results, name).content \o <<MARKER(name)>>
                      ELSE <<>>
         IN  block \o ExpectedBlocks(Tail(names), decoded, results)

\* C6 amended: when update_entry is called, exactly the configured agents that
\* have no decoded block were attempted, and the body written is, in
\* configuration order, each decoded block (its text trimmed of whitespace at
\* both ends, as parse_entry_content returns it, followed by the current-format
\* marker of its name) and each new block, before the trimmed original content;
\* this body is what the article holds once update_entry returned.
C6_PartialReannotation ==
    \A w \in Workers :
        Updating(w) =>
            LET parsed == parse_entry_content(entry[w].content)
            IN  /\ calls[w].matched = NewAgents(parsed.agents)
                /\ \A i \in DOMAIN calls[w].llm : InSeq(calls[w].llm[i], calls[w].matched)
                /\ calls[w].update =
                       <<ExpectedBlocks(AgentNames, parsed.agents, agent_results[w])
                             \o parsed.original>>
                /\ calls[w].update_result = "ok"
                       => feed[entry[w].id] = calls[w].update[1]

\* C6 witness: an article that carried a block of a configured agent, with
\* whitespace at the end of the block, got the block of another agent added
C6_Witness ==
    \E w \in Workers :
        /\ pc[w] = "done"
        /\ calls[w].update_result = "ok"
        /\ \E p \in CurrentBlocks(entry[w].content) :
               /\ p > 1
               /\ IsSpace(entry[w].content[p - 1])
               /\ DictHas(Decoded(w), MatchName(entry[w].content[p]))
        /\ SomeSuccess(agent_results[w])
        /\ feed[entry[w].id] = calls[w].update[1]

\* C8: process_entry calls update_entry, once, if and only if an outcome of the
\* call is Success; with no Success (all Filtered or Error, or the empty map)
\* no update_entry call is made and the article keeps its body.
C8_WriteBackIffSuccess ==
    \A w \in Workers :
        /\ calls[w].update # <<>> => SomeSuccess(agent_results[w])
        /\ Len(calls[w].update) <= 1
        /\ pc[w] \in {"update", "done"} =>
               /\ SomeSuccess(agent_results[w]) => calls[w].update # <<>>
               /\ ~SomeSuccess(agent_results[w]) =>
                      /\ calls[w].update_result = "none"
                      /\ feed[entry[w].id] = entry[w].content

\* C8 witness: two agents were attempted, one Filtered and one Error, and the
\* call ended without update_entry
C8_Witness ==
    \E w \in Workers :
        /\ pc[w] = "done"
        /\ Len(agent_results[w]) = 2
        /\ \E i \in DOMAIN agent_results[w] : is_filtered(agent_results[w][i][2])
        /\ \E i \in DOMAIN agent_results[w] : is_error(agent_results[w][i][2])
        /\ calls[w].update = <<>>
        /\ feed[entry[w].id] = entry[w].content

\* The LLM failed: transport failure, no choices or message, empty content
Failure(response) ==
    \/ response.kind \in {"raise", "no_choices"}
    \/ response.kind = "content" /\ response.content = <<>>

\* C9: an agent for which the LLM fails gets the outcome Error; every agent of
\* the working set is still evaluated, in order, and gets an outcome; a Success
\* of another agent of the same call is still written back.
C9_FailureIsolation ==
    \A w \in Workers :
        /\ \A i \in DOMAIN calls[w].responses :
               Failure(calls[w].responses[i][2])
                   => /\ DictHas(agent_results[w], calls[w].responses[i][1])
                      /\ is_error(DictGet(agent_results[w], calls[w].responses[i][1]))
        /\ PastAgents(w) =>
               /\ calls[w].matched = new_agents[w]
               /\ DictKeys(agent_results[w]) = {new_agents[w][i] : i \in DOMAIN new_agents[w]}
        /\ (pc[w] \in {"update", "done"} /\ SomeSuccess(agent_results[w]))
               => calls[w].update = <<OrderedContent(existing_agent_contents[w],
                                                     agent_results[w],
                                                     original_content[w])>>

\* C9 witness: the LLM failed for the first agent of the working set, the second
\* agent succeeded, and its block was written back
C9_Witness ==
    \E w \in Workers :
        /\ pc[w] = "done"
        /\ Len(calls[w].responses) = 2
        /\ Failure(calls[w].responses[1][2])
        /\ is_error(DictGet(agent_results[w], new_agents[w][1]))
        /\ is_success(DictGet(agent_results[w], new_agents[w][2]))
        /\ calls[w].update_result = "ok"
        /\ Contains(feed[entry[w].id], <<MARKER(new_agents[w][2])>>)
        /\ ~Contains(feed[entry[w].id], <<MARKER(new_agents[w][1])>>)

\* C10 as claimed: whatever collaborator fails, the LLM or update_entry,
\* process_entry returns the outcome map.
C10_AlwaysReturns ==
    \A w \in Workers : pc[w] = "done" => outcome[w].kind = "return"

\* C10 amended: a failure of the LLM never ends process_entry, which returns the
\* outcome map with Error for that agent alone; a failure of update_entry is not
\* recorded in any outcome: process_entry raises it to its caller and returns
\* no outcome map.
C10_FailureScope ==
    \A w \in Workers :
        pc[w] = "done" =>
            /\ calls[w].update_result = "raise" <=> outcome[w].kind = "raise"
            /\ calls[w].update_result # "raise" =>
                   /\ outcome[w] = [kind |-> "return", results |-> agent_results[w]]
                   /\ \A i \in DOMAIN calls[w].responses :
                          Failure(calls[w].responses[i][2])
                              => is_error(DictGet(outcome[w].results,
                                                  calls[w].responses[i][1]))
            /\ calls[w].update_result = "raise" =>
                   /\ outcome[w].results = <<>>
                   /\ feed[entry[w].id] = entry[w].content

\* C10 witness: the LLM failed for one agent and succeeded for another, and
\* update_entry then failed
C10_Witness ==
    \E w \in Workers :
        /\ pc[w] = "done"
        /\ \E i \in DOMAIN calls[w].responses : Failure(calls[w].responses[i][2])
        /\ SomeSuccess(agent_results[w])
        /\ calls[w].update_result = "raise"
        /\ outcome[w].kind = "raise"

----------------------------------------------------------------------------
(* Properties of the codec *)

\* Positions i of the codec run holding a pair that was built and parsed back
BuiltAndParsed ==
    {i \in DOMAIN codec : codec[i].kind = "pair" /\ i + 2 \in DOMAIN codec}

RoundTrips(i) ==
    /\ codec[i + 2].original = codec[i].original
    /\ DictAsMap(codec[i + 2].agent_contents) = DictAsMap(codec[i].agent_contents)

Trimmed(text) == strip(text) = text

\* What the round trip needs of M and O: names the marker patterns capture,
\* values that are not empty, carry no whitespace at their ends and hold no
\* marker, an original content that holds no marker and, unless M is empty,
\* carries no whitespace at its ends
RoundTripInput(agent_contents, original) ==
    /\ DictKeys(agent_contents) \subseteq ConfiguredNames
    /\ \A k \in DictKeys(agent_contents) :
           /\ NameMatches(k)
           /\ DictGet(agent_contents, k) # <<>>
           /\ Trimmed(DictGet(agent_contents, k))
           /\ ~HasMarker(DictGet(agent_contents, k))
    /\ ~HasMarker(original)
    /\ agent_contents # <<>> => Trimmed(original)

C5_NoOpIdempotent ==
    \A i \in DOMAIN codec :
        /\ (codec[i].kind = "body" /\ ~HasMarker(codec[i].content)
                /\ i + 1 \in DOMAIN codec)
           => codec[i + 1] = PairValue(<<>>, codec[i].content)
        /\ (codec[i].kind = "pair" /\ codec[i].agent_contents = <<>>
                /\ i + 1 \in DOMAIN codec)
           => codec[i + 1] = BodyValue(codec[i].original)
        /\ (codec[i].kind = "body" /\ ~HasMarker(codec[i].content)
                /\ i + 2 \in DOMAIN codec)
           => codec[i + 2] = codec[i]

\* C5 witness: an unmarked body with whitespace at both ends was parsed and
\* built again
C5_Witness ==
    \E i \in DOMAIN codec :
        /\ codec[i].kind = "body"
        /\ ~HasMarker(codec[i].content)
        /\ Len(codec[i].content) >= 3
        /\ IsSpace(codec[i].content[1])
        /\ IsSpace(Last(codec[i].content))
        /\ i + 2 \in DOMAIN codec
        /\ codec[i + 2] = codec[i]

\* The positions of the configuration whose name is a key of the map
PresentAt(agent_contents) ==
    {j \in DOMAIN agents : DictHas(agent_contents, agents[j].name)}

\* Where the block of configuration position j starts in the built body: after
\* the blocks and markers of the present names before it
RECURSIVE BlockOffset(_, _)
BlockOffset(agent_contents, j) ==
    IF j <= 1 THEN 0
    ELSE BlockOffset(agent_contents, j - 1)
         + (IF j - 1 \in PresentAt(agent_contents)
            THEN Len(DictGet(agent_contents, agents[j - 1].name)) + 1
            ELSE 0)

Reversed(s) == [i \in DOMAIN s |-> s[Len(s) + 1 - i]]

\* C7: the built body holds, in configuration order, the content of each
\* configured name that is a key of the map followed by that name's marker,
\* nothing for the configured names that are no key, and the original content
\* last; the order of the map's keys does not matter.
C7_CanonicalOrder ==
    \A i \in DOMAIN codec :
        (codec[i].kind = "pair" /\ i + 1 \in DOMAIN codec) =>
            LET m == codec[i].agent_contents
                body == codec[i + 1].content
                blocks == BlockOffset(m, Len(agents) + 1)
            IN  /\ Len(body) = blocks + Len(codec[i].original)
                /\ SubSeq(body, blocks + 1, Len(body)) = codec[i].original
                /\ \A j \in PresentAt(m) :
                       LET value == DictGet(m, agents[j].name)
                           from == BlockOffset(m, j)
                       IN  /\ SubSeq(body, from + 1, from + Len(value)) = value
                           /\ body[from + Len(value) + 1] = MARKER(agents[j].name)
                /\ build_ordered_content(Reversed(m), codec[i].original) = body

\* C7 witness: a map that lists two configured agents in the order opposite to
\* the configuration was built into a body
C7_Witness ==
    \E i \in DOMAIN codec :
        /\ codec[i].kind = "pair"
        /\ i + 1 \in DOMAIN codec
        /\ Len(agents) >= 2
        /\ Len(codec[i].agent_contents) = 2
        /\ codec[i].agent_contents[1][1] = AgentNames[2]
        /\ codec[i].agent_contents[2][1] = AgentNames[1]
        /\ codec[i].agent_contents[1][2] # codec[i].agent_contents[2][2]

----------------------------------------------------------------------------
(* Properties of the rule matcher *)

\* What an operator expression in canonical form (op:n, between:lo,hi with
\* decimal integers) says of a length
Compares(text, length) ==
    \/ \E n \in Thresholds :
           \/ text = GT \o IntText(n) /\ length > n
           \/ text = GE \o IntText(n) /\ length >= n
           \/ text = LT \o IntText(n) /\ length < n
           \/ text = LE \o IntText(n) /\ length <= n
           \/ text = EQ \o IntText(n) /\ length = n
    \/ \E lo \in Thresholds, hi \in Thresholds :
           /\ text = BETWEEN \o IntText(lo) \o <<",">> \o IntText(hi)
           /\ lo <= length
           /\ length <= hi

\* The article matches the rule, and the rule is valid
Satisfies(e, rule) ==
    /\ rule.eq
    /\ rule.field \in SUPPORTED_FIELDS \ {FIELD_NEVER_MATCH}
    /\ IF rule.field = FIELD_ENTRY_CONTENT_LENGTH
       THEN rule.pattern.k = "op" /\ Compares(rule.pattern.text, get_content_length(e))
       ELSE /\ rule.pattern.k = "re"
            /\ Contains(get_entry_field_value(e, rule.field), rule.pattern.lit)

SatisfiesAny(e, rules) == \E i \in DOMAIN rules : Satisfies(e, rules[i])

MatchRulesReturned == Returned /\ matching.call = "match_rules"

Malformed(rule) ==
    \/ ~rule.eq
    \/ rule.field \notin SUPPORTED_FIELDS
    \/ rule.pattern.k = "empty" /\ rule.field # FIELD_NEVER_MATCH
    \/ rule.pattern.k = "badre" /\ rule.field # FIELD_ENTRY_CONTENT_LENGTH
    \/ /\ rule.field = FIELD_ENTRY_CONTENT_LENGTH
       /\ \/ rule.pattern.k # "op"
          \/ rule.pattern.text \notin ValidOperators

MatchAnyRuleReturned == Returned /\ matching.call = "match_any_rule"

CanonicalOperators ==
    {OperatorPrefix(op) \o IntText(n) : op \in {"gt", "ge", "lt", "le", "eq"},
                                        n \in Thresholds}
    \cup {BETWEEN \o IntText(lo) \o <<",">> \o IntText(hi) :
              lo \in Thresholds, hi \in Thresholds}

MatchContentLengthReturned == Returned /\ matching.call = "match_content_length"

\* C14: for every content length and every integer threshold, gt is >, ge is
\* >=, lt is <, le is <=, eq is =, and between:lo,hi is lo <= length <= hi.
C14_TextbookComparisons ==
    (MatchContentLengthReturned /\ matching.operator.text \in CanonicalOperators)
        => matching.result =
               <<Compares(matching.operator.text, get_content_length(matching.entry))>>

\* C14 witness: between:lo,hi with lo < hi matched a content whose length is
\* hi, and one whose length is lo
C14_Witness ==
    /\ MatchContentLengthReturned
    /\ \E lo \in Thresholds, hi \in Thresholds :
           /\ lo < hi
           /\ matching.operator.text = BETWEEN \o IntText(lo) \o <<",">> \o IntText(hi)
           /\ get_content_length(matching.entry) = hi
    /\ matching.result = <<TRUE>>

\* C15 as claimed: parse_rule accepts the field name 'FeedSiteURL', and a rule
\* list with 'FeedSiteURL=x' matches the articles whose feed site URL holds x.
C15_FeedSiteURLSupported ==
    /\ (Returned /\ matching.call = "parse_rule"
            /\ matching.rule_string.eq
            /\ matching.rule_string.field = "FeedSiteURL"
            /\ matching.rule_string.pattern.k = "re")
       => matching.result = <<[field |-> "FeedSiteURL",
                               pattern |-> matching.rule_string.pattern]>>
    /\ (MatchAnyRuleReturned
            /\ \E i \in DOMAIN matching.rules : matching.rules[i] = SiteURLHasX
            /\ Contains(EntryGet(matching.entry, "feed_site_url"), <<X>>))
       => matching.result = <<TRUE>>

----------------------------------------------------------------------------
(* Properties of the batch controller *)

\* The feed service is asked for a page in this step
Requesting == Len(batch'.requests) > Len(batch.requests)

\* The future of id is taken from as_completed in this step
Collecting(id) ==
    /\ id \in DOMAIN batch.futures
    /\ batch.futures[id].state = "resolved"
    /\ batch'.futures[id].state = "collected"

\* A Summary is logged in this step
Logging == Len(batch'.logged) > Len(batch.logged)

\* The class of an article by its outcomes: Filtered outcomes are ignored, an
\* exception counts as a failure
ClassOf(article_outcome) ==
    LET succeeded == \E i \in DOMAIN article_outcome.results :
                         article_outcome.results[i][2].status = SUCCESS
        failed == \E i \in DOMAIN article_outcome.results :
                      article_outcome.results[i][2].status = ERROR
    IN  IF article_outcome.kind = "raise" THEN "error"
        ELSE IF succeeded /\ failed THEN "partial"
        ELSE IF succeeded THEN "updated"
        ELSE IF failed THEN "error"
        ELSE "none"

\* The articles submitted with page k
PageIds(k) == {id \in DOMAIN batch.page_of : batch.page_of[id] = k}

\* The Summary of page k by the outcomes of its articles
PageSummary(k) ==
    [total_count |-> Cardinality(PageIds(k)),
     updated_count |->
         Cardinality({id \in PageIds(k) : ClassOf(batch.futures[id].outcome) = "updated"}),
     partial_count |->
         Cardinality({id \in PageIds(k) : ClassOf(batch.futures[id].outcome) = "partial"}),
     error_count |->
         Cardinality({id \in PageIds(k) : ClassOf(batch.futures[id].outcome) = "error"})]

\* C16: the feed service is asked for a page only when no submitted article is
\* unresolved, and the articles in flight at any time belong to one page.
C16_PageBarrier ==
    [][/\ Requesting => InFlight(batch) = {}
       /\ \A i \in InFlight(batch'), j \in InFlight(batch') :
              batch'.page_of[i] = batch'.page_of[j]]_vars

\* C16 witness: the second page was asked for after both articles of the first
\* page had resolved, one of them by raising
C16_Witness ==
    /\ batch.pc # "none"
    /\ Len(batch.requests) = 2
    /\ Cardinality(PageIds(1)) >= 2
    /\ \A id \in PageIds(1) : batch.futures[id].state = "collected"
    /\ \E id \in PageIds(1) : batch.futures[id].outcome.kind = "raise"
    /\ InFlight(batch) # {}

\* C17: when the future of an article that raised is collected, the article is
\* counted as failed and nothing else changes: the loop goes on, the other
\* futures are left alone; when the Summary of the page is logged every article
\* of the page has resolved and is counted by its own outcomes, and the run
\* goes on to the next page if there is one.
C17_ExceptionIsolated ==
    [][/\ \A id \in DOMAIN batch.futures :
              (Collecting(id) /\ batch.futures[id].outcome.kind = "raise") =>
                  /\ batch'.counts = [batch.counts EXCEPT !.error_count = @ + 1]
                  /\ batch'.pc = "wait"
                  /\ batch'.result = "none"
                  /\ \A other \in DOMAIN batch.futures \ {id} :
                         batch'.futures[other] = batch.futures[other]
       /\ Logging =>
              /\ \A id \in PageIds(Len(batch.requests)) :
                     batch.futures[id].state = "collected"
              /\ Last(batch'.logged) = PageSummary(Len(batch.requests))
              /\ batch'.pc = IF batch.offset + limit < Len(batch.unread)
                             THEN "fetch" ELSE "done"]_vars

\* C17 witness: on the first page one article raised and another was updated,
\* both were counted, and the second page was processed as well
C17_Witness ==
    /\ batch.pc = "done"
    /\ Len(batch.logged) = 2
    /\ \E id \in PageIds(1) : batch.futures[id].outcome.kind = "raise"
    /\ \E id \in PageIds(1) : ClassOf(batch.futures[id].outcome) = "updated"
    /\ batch.logged[1].error_count = 1
    /\ batch.logged[1].updated_count = 1

\* The number of pages the unread articles fill
Pages == (Len(batch.unread) + limit - 1) \div limit

\* C18 as claimed: whatever fails, handle_unread_entries returns normally and
\* has reported the counts of the run.
C18_AlwaysReports ==
    (batch.pc = "done" /\ batch.unread # <<>>)
        => batch.result = "returned" /\ batch.logged # <<>>

\* C18 amended: every run of handle_unread_entries ends, and ends by returning:
\* no exception leaves it and no article is left in flight; a Summary with the
\* counts of a page has been logged for every page that was fetched, even if
\* every article of it failed, and none for a page whose fetch failed, which
\* ends the run.
C18_CompletesAndReports ==
    /\ <>(batch.pc = "done")
    /\ [](batch.pc = "done" =>
              /\ batch.result = "returned"
              /\ InFlight(batch) = {}
              /\ Len(batch.logged) =
                     IF batch.fetch_failed THEN Len(batch.requests) - 1 ELSE Pages
              /\ \A k \in DOMAIN batch.logged :
                     batch.logged[k].total_count = Cardinality(PageIds(k)))

\* C18 witness: every article of the first page failed, its Summary was logged,
\* and the fetch of the second page failed
C18_Witness ==
    /\ batch.pc = "done"
    /\ batch.fetch_failed
    /\ batch.result = "returned"
    /\ Len(batch.logged) = 1
    /\ batch.logged[1].error_count = limit
    /\ Len(batch.requests) = 2

\* C19: each collected article increments the one counter of its class, or no
\* counter when no agent was attempted (no Success and no Error): all attempted
\* Success is updated, all attempted Error is error, a mix is partial; so
\* updated + partial + error never exceeds total.
C19_Classification ==
    [][/\ \A id \in DOMAIN batch.futures :
              Collecting(id) =>
                  LET class == ClassOf(batch.futures[id].outcome)
                  IN  /\ class = "none" => batch'.counts = batch.counts
                      /\ class = "updated" =>
                             batch'.counts = [batch.counts EXCEPT !.updated_count = @ + 1]
                      /\ class = "partial" =>
                             batch'.counts = [batch.counts EXCEPT !.partial_count = @ + 1]
                      /\ class = "error" =>
                             batch'.counts = [batch.counts EXCEPT !.error_count = @ + 1]
       /\ batch'.counts.updated_count + batch'.counts.partial_count
              + batch'.counts.error_count <= batch'.counts.total_count]_vars

\* C19 witness: an article with one Success and one Filtered outcome was
\* collected first of its page and counted as updated
C19_Witness ==
    /\ batch.pc = "wait"
    /\ \E id \in PageIds(Len(batch.requests)) :
           /\ batch.futures[id].state = "collected"
           /\ \E i \in DOMAIN batch.futures[id].outcome.results :
                  is_filtered(batch.futures[id].outcome.results[i][2])
           /\ \E i \in DOMAIN batch.futures[id].outcome.results :
                  is_success(batch.futures[id].outcome.results[i][2])
           /\ \A other \in PageIds(Len(batch.requests)) \ {id} :
                  batch.futures[other].state # "collected"
    /\ batch.counts = [total_count |-> limit, updated_count |-> 1,
                       partial_count |-> 0, error_count |-> 0]

----------------------------------------------------------------------------
(* Shutdown *)

\* C21: once shutdown_event is set while a page is in flight, the running
\* handle_unread_entries asks the feed service for no further page, and the
\* pool is shut down and the process exits only when no submitted article is
\* left unresolved.
C21_ShutdownStopsPaging ==
    /\ process.shutdown_event /\ process.set_pc = "wait"
           => Len(batch.requests) = process.set_at
    /\ process.executor = "shut" => InFlight(batch) = {}

----------------------------------------------------------------------------
(* Legacy markers *)

IsLegacyMatch(tok) == tok[1] = "div" /\ NameMatches(tok[2])

HasLegacyMarker(content) == \E i \in DOMAIN content : IsLegacyMatch(content[i])

\* The body with every deprecated marker replaced by the current marker of the
\* same agent
Modernised(content) ==
    [i \in DOMAIN content |->
        IF IsLegacyMatch(content[i]) THEN MARKER(content[i][2]) ELSE content[i]]

\* C22: parse_entry_content puts the blocks of a body into the same map
\* whichever of the two marker shapes delimits them; build_ordered_content
\* emits the current shape only; a body with deprecated markers that is
\* decoded and encoded again holds current markers only and decodes to the
\* same original content and the same map.
C22_LegacyCompatible ==
    \A i \in DOMAIN codec :
        (codec[i].kind = "body" /\ HasLegacyMarker(codec[i].content)) =>
            /\ i + 1 \in DOMAIN codec =>
                   LET parsed == parse_entry_content(Modernised(codec[i].content))
                   IN  codec[i + 1] = PairValue(parsed.agents, parsed.original)
            /\ i + 2 \in DOMAIN codec => ~HasLegacyMarker(codec[i + 2].content)
            /\ i + 3 \in DOMAIN codec =>
                   /\ codec[i + 3].original = codec[i + 1].original
                   /\ DictAsMap(codec[i + 3].agent_contents)
                          = DictAsMap(codec[i + 1].agent_contents)

----------------------------------------------------------------------------
(* Blocks of agents that left the configuration *)

\* The blocks a body carries for agents that are not configured, as decoded
StaleBlocks(content) ==
    LET agent_contents == parse_entry_content(content).agents
    IN  {agent_contents[i] : i \in {j \in DOMAIN agent_contents :
                                        agent_contents[j][1] \notin ConfiguredNames}}

\* C24: a block of an agent that is no longer configured stays in the stored
\* body of the article through every step of every processing pass, also
\* when another agent succeeds and the body is written back.
C24_StaleBlocksKept ==
    [][\A id \in DOMAIN feed : StaleBlocks(feed[id]) \subseteq StaleBlocks(feed'[id])]_vars

----------------------------------------------------------------------------
(* The LLM collaborator *)

\* C23: for every response the LLM has given, get_completion either raised
\* or returned a text that is not empty.
C23_NeverEmptyCompletion ==
    \A w \in Workers : \A i \in DOMAIN calls[w].responses :
        LET completion == get_completion(calls[w].responses[i][2])
        IN  completion.ok => completion.text # <<>>

----------------------------------------------------------------------------
(* The outcome map of one article *)

\* The call of worker w passed the dedup gate and has returned its outcome map
ReturnedPastGate(w) ==
    pc[w] = "done" /\ calls[w].seen = "miss" /\ outcome[w].kind = "return"

\* Whether match_rules is true of the entry of w for the agent of this name
RulesMatch(w, name) ==
    match_rules(original_entry(w), AgentOf(name).allow_rules, AgentOf(name).deny_rules)

----------------------------------------------------------------------------
(* Blank original content *)

\* process_entry of worker w has decoded a body whose original content is blank
DecodedBlank(w) ==
    pc[w] \notin {"idle", "start"} /\ strip(original_content[w]) = <<>>

\* C26: when the original content decoded from the body is empty or holds
\* whitespace only, process_entry has returned an empty outcome map without
\* looking up the cache, evaluating a rule, calling the LLM or writing back;
\* the stored body is as it was, and the batch controller counts the article
\* in none of its updated, partial and error counters.
C26_BlankShortCircuit ==
    \A w \in Workers :
        DecodedBlank(w) =>
            /\ pc[w] = "done"
            /\ outcome[w] = [kind |-> "return", results |-> <<>>]
            /\ calls[w] = NoCalls
            /\ feed[entry[w].id] = entry[w].content
            /\ Classify(outcome[w]) = "none"

\* C26 witness: a body that holds only a block and its marker was short-circuited
C26_Witness ==
    \E w \in Workers :
        /\ DecodedBlank(w)
        /\ HasMarker(entry[w].content)
        /\ existing_agent_contents[w] # <<>>
        /\ outcome[w] = [kind |-> "return", results |-> <<>>]

----------------------------------------------------------------------------
(* Order of the agents of one article *)

\* C27: in one call of process_entry the agents run one after the other in
\* configuration order: the agents started so far are the first ones of the
\* working set, which is in configuration order; at most one request to the
\* LLM is unanswered and it belongs to the agent started last; update_entry is
\* called at most once, after every agent of the working set has finished.
C27_SequentialAgents ==
    \A w \in Workers :
        /\ new_agents[w] = SelectSeq(AgentNames, LAMBDA name : InSeq(name, new_agents[w]))
        /\ Len(calls[w].matched) <= Len(new_agents[w])
        /\ calls[w].matched = SubSeq(new_agents[w], 1, Len(calls[w].matched))
        /\ Len(calls[w].llm) - Len(calls[w].responses) \in {0, 1}
        /\ Len(calls[w].llm) > Len(calls[w].responses) =>
               /\ pc[w] = "llm"
               /\ calls[w].llm[Len(calls[w].llm)]
                      = calls[w].matched[Len(calls[w].matched)]
        /\ \A i \in DOMAIN calls[w].responses :
               calls[w].responses[i][1] = calls[w].llm[i]
        /\ calls[w].update # <<>> =>
               /\ Len(calls[w].update) = 1
               /\ calls[w].matched = new_agents[w]
               /\ Len(calls[w].responses) = Len(calls[w].llm)

\* C27 witness: two agents were called one after the other, in configuration
\* order, and the body is being written back
C27_Witness ==
    \E w \in Workers :
        /\ pc[w] = "update"
        /\ Len(calls[w].responses) = 2
        /\ calls[w].llm = AgentNames
        /\ Len(calls[w].update) = 1

----------------------------------------------------------------------------
(* Extent of the cache lock *)

\* Worker w is waiting for the answer of the LLM or of update_entry
InNetworkCall(w) == pc[w] \in {"llm", "update"}

\* C28: the worker that holds _ENTRY_CACHE_LOCK is at the lookup or at the
\* insert of its id; no worker holds the lock while its LLM call or its
\* update_entry call is in progress.
C28_LockOnlyAtGate ==
    \A w \in Workers :
        /\ ENTRY_CACHE_LOCK = w => pc[w] \in {"check", "insert"}
        /\ InNetworkCall(w) => ENTRY_CACHE_LOCK # w

\* C28 witness: a worker takes the lock at the gate while the LLM call of
\* another worker is in progress
C28_Witness ==
    \E w, v \in Workers :
        /\ w # v
        /\ pc[w] = "llm"
        /\ ENTRY_CACHE_LOCK = v
        /\ pc[v] = "check"

----------------------------------------------------------------------------
(* A call that never returns *)

\* The future of article id has resolved
Resolved(id) == batch.futures[id].state \in {"resolved", "collected"}

\* The page an article of the run belongs to, by its place in the listing
PageNumber(id) == ((Len(batch.unread) - id) \div limit) + 1

\* C29 as claimed: with two pool threads and one LLM call that never returns,
\* every other article of the run, of the same page and of the later pages,
\* eventually has a resolved outcome.
C29_OthersResolve ==
    \A id \in 1..MaxUnread :
        <>(id \in DOMAIN batch.futures /\ id # batch.stuck => Resolved(id))

\* C29 amended: every other article of the page of the stuck call, and of the
\* pages before it, eventually has a resolved outcome; the articles of the
\* later pages are never submitted, and the run never ends.
C29_SamePageResolves ==
    /\ \A id \in 1..MaxUnread :
           <>((id \in DOMAIN batch.futures /\ id # batch.stuck
                  /\ PageNumber(id) <= PageNumber(batch.stuck)) => Resolved(id))
    /\ [](\A id \in DOMAIN batch.futures :
              PageNumber(id) > PageNumber(batch.stuck) =>
                  batch.futures[id].state = "none")
    /\ [](batch.pc # "done" /\ ~Resolved(batch.stuck))

\* C29 witness: the stuck call holds one pool thread, the other articles of
\* its page have resolved, and an article of a later page waits unsubmitted
C29_Witness ==
    /\ batch.stuck # 0
    /\ batch.futures[batch.stuck].state = "running"
    /\ \E id \in DOMAIN batch.futures :
           id # batch.stuck /\ PageNumber(id) = PageNumber(batch.stuck)
    /\ \A id \in DOMAIN batch.futures :
           (id # batch.stuck /\ PageNumber(id) = PageNumber(batch.stuck))
               => batch.futures[id].state = "collected"
    /\ \E id \in DOMAIN batch.futures :
           PageNumber(id) > PageNumber(batch.stuck) /\ batch.futures[id].state = "none"

----------------------------------------------------------------------------
(* Pagination *)

\* The most page requests a run can make when no total exceeds MaxUnread
MaxRequests ==
    IF MaxUnread <= limit THEN 1 ELSE (MaxUnread + limit - 1) \div limit

\* C30: when every submitted article resolves and no reported total exceeds
\* MaxUnread, handle_unread_entries ends, after at most MaxRequests page
\* requests. A request is made at the current offset; on an empty page or a
\* total of 0 the run ends and nothing is submitted, otherwise every article
\* of the page is submitted. After a page, whose articles have all been
\* collected, the offset grows by the page size, and the run ends exactly if
\* the offset has reached the total reported by the last request.
C30_PaginationTerminates ==
    /\ <>(batch.pc = "done")
    /\ [](Len(batch.requests) <= MaxRequests)
    /\ [][/\ (Len(batch'.requests) > Len(batch.requests) /\ ~batch'.fetch_failed) =>
                /\ batch'.requests = Append(batch.requests, batch.offset)
                /\ batch'.offset = batch.offset
                /\ IF batch'.total = 0 \/ batch'.entries = <<>>
                   THEN batch'.pc = "done" /\ batch'.futures = batch.futures
                   ELSE /\ batch'.pc = "wait"
                        /\ \A i \in DOMAIN batch'.entries :
                               batch'.futures[batch'.entries[i]].state = "queued"
          /\ (batch.pc = "wait" /\ batch'.pc # "wait") =>
                /\ \A i \in DOMAIN batch.entries :
                       batch.futures[batch.entries[i]].state = "collected"
                /\ batch'.offset = batch.offset + limit
                /\ batch'.pc = "done" <=> batch'.offset >= batch.total
                /\ batch'.pc = "fetch" <=> batch'.offset < batch.total]_vars

\* C30 witness: a run ended after MaxRequests pages because its offset had
\* reached the total of the last request, while the listing had changed
C30_Witness ==
    /\ batch.pc = "done"
    /\ ~batch.fetch_failed
    /\ MaxRequests > 1
    /\ Len(batch.requests) = MaxRequests
    /\ batch.entries # <<>>
    /\ batch.offset >= batch.total
    /\ batch.total # Len(batch.unread)

----------------------------------------------------------------------------
(* The dedup cache on its own: TTLCache(maxsize, ttl) of core/entry_processor.py *)
(* under the check-and-insert of _process_entry_with_agents, with more ids   *)
(* than the cache has room for.                                              *)

maxsize == 2

CacheIds == 1 .. (maxsize + 1)

\* A variant of TTLCache_evicted that removes the newest link
TTLCache_evicted_newest(cache, key, time, size) ==
    LET live == cache_expire(cache, time)
    IN  IF key \notin CacheKeys(live) /\ Len(live) + 1 > size /\ live # <<>>
        THEN {live[Len(live)][1]}
        ELSE {}

\* Cache.__setitem__: while currsize + 1 > maxsize: popitem(), and popitem of
\* TTLCache removes the first key of its links, the oldest inserted
TTLCache_evicted(cache, key, time, size) ==
    LET live == cache_expire(cache, time)
    IN  IF key \notin CacheKeys(live) /\ Len(live) + 1 > size /\ live # <<>>
        THEN {Head(live)[1]}
        ELSE {}

\* TTLCache.__setitem__ for a cache of the given size
TTLCache_setitem(cache, key, time, size) ==
    LET live == cache_expire(cache, time)
        room == SelectSeq(live, LAMBDA link :
                    link[1] # key /\ link[1] \notin TTLCache_evicted(cache, key, time, size))
    IN  Append(room, <<key, time + CACHE_TTL>>)

\* lines 89-93 for one article, as one thread runs them under _ENTRY_CACHE_LOCK:
\* present: return {}; absent: insert and go on to the agents
CheckAndInsert(id) ==
    /\ id \in DOMAIN feed
    /\ entry' = [entry EXCEPT !["w1"] =
                    [id |-> id, title |-> EntryTitle(id), content |-> feed[id]]]
    /\ IF cache_contains(ENTRY_CACHE, id, now)
       THEN /\ calls' = [calls EXCEPT !["w1"] = [NoCalls EXCEPT !.seen = "hit"]]
            /\ UNCHANGED <<ENTRY_CACHE, gate>>
       ELSE /\ calls' = [calls EXCEPT !["w1"] =
                            [NoCalls EXCEPT !.seen = "miss", !.at = now]]
            /\ ENTRY_CACHE' = TTLCache_setitem(ENTRY_CACHE, id, now, maxsize)
            /\ gate' = [j \in DOMAIN gate |->
                          IF j = id THEN [at |-> now, evicted |-> FALSE]
                          ELSE IF j \in TTLCache_evicted(ENTRY_CACHE, id, now, maxsize)
                          THEN [gate[j] EXCEPT !.evicted = TRUE]
                          ELSE gate[j]]
    /\ UNCHANGED <<digest, process, matching, batch, agents, codec, feed, now, ENTRY_CACHE_LOCK,
                   pc, Locals, outcome>>

InitCache ==
    /\ agents = <<SummaryAgent>>
    /\ codec = <<>>
    /\ feed = [id \in CacheIds |-> <<X>>]
    /\ InitWorkers
    /\ matching = NoMatching
    /\ batch = NoBatch
    /\ process = NoProcess
    /\ digest = NoDigest

NextCache == Tick \/ \E id \in CacheIds : CheckAndInsert(id)

SpecCache == InitCache /\ [][NextCache]_vars

\* The ids the cache reports as seen
SeenIds == {id \in DOMAIN gate : cache_contains(ENTRY_CACHE, id, now)}

\* The cache never holds more than maxsize ids, and reports an id as seen
\* exactly while it was inserted less than the ttl ago and not evicted since
CacheWithinBounds ==
    /\ Len(ENTRY_CACHE) <= maxsize
    /\ Cardinality(SeenIds) <= maxsize
    /\ \A id \in DOMAIN gate : id \in SeenIds <=> Remembered(id)

\* One check-and-insert: an id that is not remembered (never inserted, expired
\* or evicted) is let through and inserted; into a full cache the insertion
\* evicts an id inserted no later than every id it keeps, and nothing else
CacheStep ==
    LET id == entry'["w1"].id
        miss == calls'["w1"].seen = "miss"
    IN  (now' = now) =>
            /\ miss <=> ~Remembered(id)
            /\ miss => id \in SeenIds'
            /\ (miss /\ Cardinality(SeenIds) = maxsize) =>
                   \E old \in SeenIds :
                       /\ \A j \in SeenIds : gate[old].at <= gate[j].at
                       /\ SeenIds' = (SeenIds \ {old}) \cup {id}
            /\ (miss /\ Cardinality(SeenIds) < maxsize) =>
                   SeenIds' = SeenIds \cup {id}
            /\ ~miss => SeenIds' = SeenIds

\* C31: the dedup cache holds at most its capacity of ids; an id is reported as
\* seen exactly while it was inserted less than the ttl ago and has not been
\* evicted; inserting into a full cache evicts the oldest-inserted id; after
\* expiry or eviction the next submission of the id is let through again.
C31_DedupCacheBounds == []CacheWithinBounds /\ [][CacheStep]_vars

\* C31 witness: the cache is full, an id was evicted for room before its ttl
\* ran out, and every id still held was inserted later than it
C31_Witness ==
    /\ Cardinality(SeenIds) = maxsize
    /\ \E old \in DOMAIN gate :
           /\ gate[old].evicted
           /\ now < gate[old].at + CACHE_TTL
           /\ \A j \in SeenIds : gate[old].at < gate[j].at
    /\ calls["w1"].seen = "miss"

----------------------------------------------------------------------------
(* Rule matching and the blocks of other agents *)

\* The article of worker w as process_entry would hand it to the rules had its
\* stored body been other
EntryWithBody(w, other) ==
    [id |-> entry[w].id, title |-> entry[w].title,
     content |-> parse_entry_content(other).original]

\* The bodies that decode to the same original content as the body of worker w
SameOriginal(w) ==
    {other \in Bodies :
        parse_entry_content(other).original
            = parse_entry_content(entry[w].content).original}

\* C32: rule matching does not depend on the blocks of other agents: the
\* decision process_entry took for an agent (Filtered, or a request to the LLM)
\* is the value of match_rules for every body that decodes to the same original
\* content and has that agent in its working set, whatever blocks it carries.
C32_RulesIgnoreBlocks ==
    \A w \in Workers :
        ReturnedPastGate(w) =>
            \A other \in SameOriginal(w) :
                \A i \in DOMAIN outcome[w].results :
                    LET name == outcome[w].results[i][1]
                        agent == AgentOf(name)
                    IN  InSeq(name, NewAgents(parse_entry_content(other).agents)) =>
                            /\ is_filtered(outcome[w].results[i][2])
                                   <=> ~match_rules(EntryWithBody(w, other),
                                                    agent.allow_rules, agent.deny_rules)
                            /\ InSeq(name, calls[w].llm)
                                   <=> match_rules(EntryWithBody(w, other),
                                                   agent.allow_rules, agent.deny_rules)

\* C32 witness: an article that carries the block of one agent was decided for
\* another agent, whose rules give the opposite answer on the stored body, and
\* a body without any block decodes to the same original content
C32_Witness ==
    \E w \in Workers :
        /\ ReturnedPastGate(w)
        /\ Decoded(w) # <<>>
        /\ \E other \in SameOriginal(w) : parse_entry_content(other).agents = <<>>
        /\ \E i \in DOMAIN outcome[w].results :
               LET agent == AgentOf(outcome[w].results[i][1])
               IN  match_rules(original_entry_stored(w), agent.allow_rules, agent.deny_rules)
                       # match_rules(original_entry(w), agent.allow_rules, agent.deny_rules)

----------------------------------------------------------------------------
(* The dedup entry of a failed article *)

\* The call of worker v passed the gate and failed: update_entry raised, or
\* every agent of the working set ended in Error
FailedPass(v) ==
    /\ pc[v] = "done"
    /\ calls[v].seen = "miss"
    /\ \/ outcome[v].kind = "raise"
       \/ /\ outcome[v].kind = "return"
          /\ outcome[v].results # <<>>
          /\ \A i \in DOMAIN outcome[v].results : is_error(outcome[v].results[i][2])

\* C36: the id of an article is in the dedup cache before its first agent is
\* evaluated, and no step of process_entry takes it out again: it leaves the
\* cache only when time passes or when the insert of another id evicts it.
\* So a submission that reaches the gate while the entry of a failed pass of
\* the same article is within its ttl and not evicted returns the empty
\* outcome map, with no rule evaluated, no LLM call and no write-back.
C36_FailedNotRetried ==
    [][/\ \A w \in Workers :
              (pc[w] # "agent" /\ pc'[w] = "agent") =>
                  cache_contains(ENTRY_CACHE', entry'[w].id, now')
       /\ \A id \in DOMAIN gate :
              (cache_contains(ENTRY_CACHE, id, now) /\ ~cache_contains(ENTRY_CACHE', id, now'))
                  => \/ now' # now
                     \/ \E w \in Workers :
                            /\ pc[w] = "insert" /\ pc'[w] = "agent"
                            /\ entry[w].id # id
       /\ \A v, w \in Workers :
              (/\ v # w
               /\ FailedPass(v)
               /\ entry[w].id = entry[v].id
               /\ now < calls[v].at + CACHE_TTL
               /\ ~calls[v].lost
               /\ pc[w] = "check" /\ pc'[w] # "check")
              => /\ pc'[w] = "done"
                 /\ outcome'[w] = EmptyOutcome
                 /\ calls'[w].matched = <<>>
                 /\ calls'[w].llm = <<>>
                 /\ calls'[w].update = <<>>]_vars

\* C36 witness: a pass over an article has failed, and a submission of the
\* same article within the ttl of its entry was turned away at the gate
C36_Witness ==
    \E v, w \in Workers :
        /\ v # w
        /\ FailedPass(v)
        /\ entry[w].id = entry[v].id
        /\ now < calls[v].at + CACHE_TTL
        /\ pc[w] = "done"
        /\ calls[w].seen = "hit"
        /\ outcome[w] = EmptyOutcome

----------------------------------------------------------------------------
(* What a later pass finds of the agents that have just succeeded *)

\* C37: every body process_entry writes back decodes to a map that holds every
\* agent whose outcome in that call was Success, so that a later pass does not
\* run the agent again; no marker written back follows an empty or
\* whitespace-only block.
C37_SuccessDecodes ==
    \A w \in Workers :
        Updating(w) =>
            LET body == calls[w].update[1]
            IN  \A i \in DOMAIN agent_results[w] :
                    is_success(agent_results[w][i][2]) =>
                        DictHas(parse_entry_content(body).agents, agent_results[w][i][1])

----------------------------------------------------------------------------
(* The original content across rewrites *)

\* The original content decoded from a body
OriginalOf(body) == parse_entry_content(body).original

\* C38 as claimed: the original content decoded from the body process_entry
\* writes back equals the original content decoded from the body it was given.
C38_OriginalUnchanged ==
    \A w \in Workers :
        Updating(w) => OriginalOf(calls[w].update[1]) = OriginalOf(entry[w].content)

\* C38 amended: the original content decoded from the body written back is the
\* original content decoded from the given body without the whitespace at its
\* two ends, and the same content whenever the given body carried a marker or
\* had no such whitespace; through every step of every later pass the stored
\* body keeps decoding to that trimmed content.
C38_OriginalUpToTrim ==
    /\ [](\A w \in Workers :
              Updating(w) =>
                  /\ OriginalOf(calls[w].update[1]) = strip(OriginalOf(entry[w].content))
                  /\ (\/ HasMarker(entry[w].content)
                      \/ strip(entry[w].content) = entry[w].content)
                         => OriginalOf(calls[w].update[1]) = OriginalOf(entry[w].content))
    /\ [][\A id \in DOMAIN feed :
              /\ strip(OriginalOf(feed'[id])) = strip(OriginalOf(feed[id]))
              /\ feed'[id] # feed[id] => OriginalOf(feed'[id]) = strip(OriginalOf(feed[id]))]_vars

\* C38 witness: a body without markers that ends in whitespace was rewritten,
\* stored, and decodes to its content without that whitespace
C38_Witness ==
    \E w \in Workers :
        /\ Updating(w)
        /\ calls[w].update_result = "ok"
        /\ ~HasMarker(entry[w].content)
        /\ strip(entry[w].content) # entry[w].content
        /\ feed[entry[w].id] = calls[w].update[1]
        /\ OriginalOf(feed[entry[w].id]) = strip(entry[w].content)

----------------------------------------------------------------------------
(* core/rule_matcher.py on lists of placeholders *)

\* The rules of the lists given here: the sentinel, malformed rules, and two
\* rules in order
SentinelRules == {NeverMatchRule, MissingEquals, InvalidRegex, MalformedBetween}

PlaceholderListRules == SentinelRules \cup {TitleHasX, LengthRule("ge", 2)}

InitPlaceholders ==
    /\ process = NoProcess
    /\ digest = NoDigest
    /\ agents = <<SummaryAgent>>
    /\ codec = <<>>
    /\ feed = <<>>
    /\ InitWorkers
    /\ batch = NoBatch
    /\ \/ \E e \in RuleEntries, allow_rules \in SeqsUpTo(PlaceholderListRules, MaxRules),
             deny_rules \in SeqsUpTo({NeverMatchRule, InvalidRegex, TitleHasX}, MaxRules) :
              matching = [Matching("match_rules") EXCEPT
                             !.entry = e, !.allow_rules = allow_rules,
                             !.deny_rules = deny_rules]
       \/ \E e \in RuleEntries, rules \in SeqsUpTo(PlaceholderListRules, MaxRules + 1) :
              matching = [Matching("match_any_rule") EXCEPT !.entry = e, !.rules = rules]

NextPlaceholders == MatchRules \/ MatchAnyRule

SpecPlaceholders == InitPlaceholders /\ [][NextPlaceholders]_vars

\* A non-empty list that holds nothing but sentinel and malformed rules
OnlyPlaceholders(rules) ==
    rules # <<>> /\ \A i \in DOMAIN rules : rules[i] \in SentinelRules

\* The rule is in order and matches the entry on its own
MatchesAlone(e, rule) ==
    \/ rule = TitleHasX /\ Contains(e.title, <<X>>)
    \/ rule = LengthRule("ge", 2) /\ get_content_length(e) >= 2

\* C39: a non-empty list of sentinel and malformed rules only never matches;
\* match_rules with such an allow list returns false for every article, and
\* with such a deny list and an empty allow list it returns true for every
\* article; a sentinel rule at any position never keeps a later (or earlier)
\* rule from matching.
C39_PlaceholdersNeverMatch ==
    Returned =>
        /\ (matching.call = "match_any_rule" /\ OnlyPlaceholders(matching.rules))
               => matching.result = <<FALSE>>
        /\ matching.call = "match_any_rule"
               => (matching.result = <<TRUE>>
                      <=> \E i \in DOMAIN matching.rules :
                              MatchesAlone(matching.entry, matching.rules[i]))
        /\ (matching.call = "match_rules" /\ OnlyPlaceholders(matching.allow_rules))
               => matching.result = <<FALSE>>
        /\ (/\ matching.call = "match_rules"
            /\ OnlyPlaceholders(matching.deny_rules)
            /\ matching.allow_rules = <<>>)
               => matching.result = <<TRUE>>

\* C39 witness: an allow list of the sentinel and a malformed rule blocked an
\* article that no deny rule was given for
C39_Witness ==
    /\ Returned
    /\ matching.call = "match_rules"
    /\ Len(matching.allow_rules) = MaxRules
    /\ matching.allow_rules[1] = NeverMatchRule
    /\ matching.allow_rules[MaxRules] \in SentinelRules \ {NeverMatchRule}
    /\ matching.deny_rules = <<>>
    /\ matching.result = <<FALSE>>

----------------------------------------------------------------------------
(* core/digest_generator.py and core/digest_handler.py *)
(* digest is a record:                                                     *)
(*   summary_file   the lines of SUMMARY_FILE, each a record [id, serial]  *)
(*                  (serial tells apart the records appended for one id)   *)
(*   SUMMARY_FILE_LOCK   its holder, or NoWorker                            *)
(*   digest_file    DIGEST_FILE: <<>> when empty, else <<content>>         *)
(*   saver          worker thread -> its position in save_summary          *)
(*   job            the scheduler thread inside generate_daily_digest      *)
(*   reader         request thread -> its position in load_digest_content  *)
(*   appended, runs, reads, generated   how many records were appended,    *)
(*                  jobs started, requests served, digests written         *)
(*   loads          what each _load_summaries read and returned            *)
(*   consumed       what each load_digest_content returned                 *)
(*   refreshed      the calls of refresh_feed                              *)

MaxRecords == 3
MaxRuns == 2
MaxReads == 2

Readers == {"r1", "r2"}

JOB == "job"

IdleSaver == [pc |-> "idle", id |-> 0, content |-> <<>>]

IdleReader == [pc |-> "idle", content |-> <<>>]

IdleJob ==
    [pc |-> "idle", lines |-> <<>>, summaries |-> <<>>, greeting_calls |-> 0,
     summary_calls |-> 0, wrote |-> FALSE, refreshed |-> FALSE, outcome |-> "none"]

NotDigest ==
    <<process, matching, batch, agents, codec, feed, now, ENTRY_CACHE, ENTRY_CACHE_LOCK,
      pc, entry, Locals, outcome, calls, gate>>

\* _process_with_single_agent line 132: a worker calls save_summary
SaveSummaryCall(w, id, content) ==
    /\ digest.saver[w].pc = "idle"
    /\ digest.appended + Cardinality({v \in Workers : digest.saver[v].pc # "idle"})
           < MaxRecords
    /\ digest' = [digest EXCEPT !.saver[w] = [pc |-> "called", id |-> id, content |-> content]]
    /\ UNCHANGED NotDigest

\* save_summary lines 114-115: nothing is saved for an empty summary
SaveSummaryEmpty(w) ==
    /\ digest.saver[w].pc = "called"
    /\ digest.saver[w].content = <<>>
    /\ digest' = [digest EXCEPT !.saver[w] = IdleSaver]
    /\ UNCHANGED NotDigest

\* A variant of SaveSummaryLock that does not wait for the lock
SaveSummaryLockNoWait(w) ==
    /\ digest.saver[w].pc = "called"
    /\ digest.saver[w].content # <<>>
    /\ digest' = [digest EXCEPT !.saver[w].pc = "locked"]
    /\ UNCHANGED NotDigest

\* save_summary line 128: with SUMMARY_FILE_LOCK
SaveSummaryLock(w) ==
    /\ digest.saver[w].pc = "called"
    /\ digest.saver[w].content # <<>>
    /\ digest.SUMMARY_FILE_LOCK = NoWorker
    /\ digest' = [digest EXCEPT !.saver[w].pc = "locked", !.SUMMARY_FILE_LOCK = w]
    /\ UNCHANGED NotDigest

\* save_summary lines 129-130: the record is appended and the lock released
SaveSummaryAppend(w) ==
    /\ digest.saver[w].pc = "locked"
    /\ digest' = [digest EXCEPT
           !.summary_file = Append(@, [id |-> digest.saver[w].id,
                                       serial |-> digest.appended + 1]),
           !.appended = @ + 1,
           !.SUMMARY_FILE_LOCK = IF @ = w THEN NoWorker ELSE @,
           !.saver[w] = IdleSaver]
    /\ UNCHANGED NotDigest

\* A variant of unique_summaries that keeps the first record of each id
RECURSIVE unique_summaries_first(_, _)
unique_summaries_first(lines, unique) ==
    IF lines = <<>> THEN unique
    ELSE unique_summaries_first(Tail(lines),
             IF DictHas(unique, Head(lines).id) THEN unique
             ELSE DictSet(unique, Head(lines).id, Head(lines)))

\* _load_summaries lines 158-162: unique_summaries[summary['id']] = summary
RECURSIVE unique_summaries(_, _)
unique_summaries(lines, unique) ==
    IF lines = <<>> THEN unique
    ELSE unique_summaries(Tail(lines), DictSet(unique, Head(lines).id, Head(lines)))

\* line 172: list(unique_summaries.values())
DictValues(d) == [i \in DOMAIN d |-> d[i][2]]

\* The scheduler thread runs the job generate_daily_digest
GenerateDailyDigest ==
    /\ digest.job.pc = "idle"
    /\ digest.runs < MaxRuns
    /\ digest' = [digest EXCEPT !.job = [IdleJob EXCEPT !.pc = "load"], !.runs = @ + 1]
    /\ UNCHANGED NotDigest

\* _load_summaries line 145: with SUMMARY_FILE_LOCK
LoadSummariesLock ==
    /\ digest.job.pc = "load"
    /\ digest.SUMMARY_FILE_LOCK = NoWorker
    /\ digest' = [digest EXCEPT !.job.pc = "read", !.SUMMARY_FILE_LOCK = JOB]
    /\ UNCHANGED NotDigest

\* _load_summaries lines 149-172: the lines are read and deduplicated
LoadSummariesRead ==
    /\ digest.job.pc = "read"
    /\ digest' = [digest EXCEPT
           !.job.lines = digest.summary_file,
           !.job.summaries = DictValues(unique_summaries(digest.summary_file, <<>>)),
           !.job.pc = "truncate"]
    /\ UNCHANGED NotDigest

\* _load_summaries lines 179-180 and generate_digest_content lines 20-25: the
\* file is emptied, the lock released, and without summaries the job ends
LoadSummariesReturn ==
    /\ digest.job.pc = "truncate"
    /\ digest' = [digest EXCEPT
           !.summary_file = <<>>,
           !.SUMMARY_FILE_LOCK = NoWorker,
           !.loads = Append(@, [read |-> digest.job.lines,
                                returned |-> digest.job.summaries]),
           !.job.pc = IF digest.job.summaries = <<>> THEN "idle" ELSE "greeting",
           !.job.outcome = IF digest.job.summaries = <<>> THEN "no_summaries" ELSE "none"]
    /\ UNCHANGED NotDigest

\* A variant of AfterCompletion that tries a third time
AfterCompletionThrice(response, made, next) ==
    IF get_completion(response).ok THEN [pc |-> next, outcome |-> "none"]
    ELSE IF made <= 2 THEN [pc |-> "retry", outcome |-> "none"]
    ELSE [pc |-> "idle", outcome |-> "raised"]

\* What the job does after an answer of the LLM: go on, try once more, or raise
AfterCompletion(response, made, next) ==
    IF get_completion(response).ok THEN [pc |-> next, outcome |-> "none"]
    ELSE IF made = 1 THEN [pc |-> "retry", outcome |-> "none"]
    ELSE [pc |-> "idle", outcome |-> "raised"]

\* _generate_greeting lines 51-55: get_completion, once more if it raised; the
\* second exception leaves generate_digest_content (35-37) and is logged by
\* generate_daily_digest (52-54)
GenerateGreeting(response) ==
    /\ digest.job.pc = "greeting"
    /\ LET after == AfterCompletion(response, digest.job.greeting_calls + 1, "summary")
       IN  digest' = [digest EXCEPT
               !.job.greeting_calls = @ + 1,
               !.job.pc = IF after.pc = "retry" THEN "greeting" ELSE after.pc,
               !.job.outcome = after.outcome]
    /\ UNCHANGED NotDigest

\* _generate_summary lines 74-78, likewise
GenerateSummary(response) ==
    /\ digest.job.pc = "summary"
    /\ LET after == AfterCompletion(response, digest.job.summary_calls + 1, "save")
       IN  digest' = [digest EXCEPT
               !.job.summary_calls = @ + 1,
               !.job.pc = IF after.pc = "retry" THEN "summary" ELSE after.pc,
               !.job.outcome = after.outcome]
    /\ UNCHANGED NotDigest

\* The digest text: which generation it is and the articles it digests
DigestContent(n, summaries) ==
    [n |-> n, ids |-> [i \in DOMAIN summaries |-> summaries[i].id]]

\* generate_digest_content lines 31-33 and _save_digest_content line 218
SaveDigestContent ==
    /\ digest.job.pc = "save"
    /\ digest' = [digest EXCEPT
           !.digest_file = <<DigestContent(digest.generated + 1, digest.job.summaries)>>,
           !.generated = @ + 1,
           !.job.wrote = TRUE,
           !.job.pc = "refresh"]
    /\ UNCHANGED NotDigest

\* generate_daily_digest lines 49-51: the digest feed is refreshed
RefreshDigestFeed ==
    /\ digest.job.pc = "refresh"
    /\ digest' = [digest EXCEPT
           !.refreshed = @ + 1,
           !.job.refreshed = TRUE,
           !.job.pc = "idle",
           !.job.outcome = "generated"]
    /\ UNCHANGED NotDigest

\* load_digest_content lines 196-202: a request thread reads DIGEST_FILE
LoadDigestRead(r) ==
    /\ digest.reader[r].pc = "idle"
    /\ digest.reads < MaxReads
    /\ digest' = [digest EXCEPT
           !.reader[r] = [pc |-> "read", content |-> digest.digest_file],
           !.reads = @ + 1]
    /\ UNCHANGED NotDigest

\* load_digest_content lines 206-207: the file is emptied, the text returned
LoadDigestReturn(r) ==
    /\ digest.reader[r].pc = "read"
    /\ digest' = [digest EXCEPT
           !.digest_file = <<>>,
           !.consumed = Append(@, [by |-> r, content |-> digest.reader[r].content,
                                   erased |-> digest.digest_file]),
           !.reader[r] = IdleReader]
    /\ UNCHANGED NotDigest

\* The summaries workers save
SummaryContents == {<<>>, <<X>>}

InitDigest ==
    /\ agents = <<SummaryAgent>>
    /\ codec = <<>>
    /\ feed = [id \in EntryIds |-> <<X>>]
    /\ InitWorkers
    /\ matching = NoMatching
    /\ batch = NoBatch
    /\ process = NoProcess
    /\ digest = [summary_file |-> <<>>, SUMMARY_FILE_LOCK |-> NoWorker,
                 digest_file |-> <<>>,
                 saver |-> [w \in Workers |-> IdleSaver],
                 job |-> IdleJob,
                 reader |-> [r \in Readers |-> IdleReader],
                 appended |-> 0, runs |-> 0, reads |-> 0, generated |-> 0,
                 loads |-> <<>>, consumed |-> <<>>, refreshed |-> 0]

\* The worker threads and the digest job on the summary file
NextSummaries ==
    \/ \E w \in Workers :
           \/ \E id \in EntryIds, content \in SummaryContents :
                  SaveSummaryCall(w, id, content)
           \/ SaveSummaryEmpty(w)
           \/ SaveSummaryLock(w)
           \/ SaveSummaryAppend(w)
    \/ GenerateDailyDigest
    \/ LoadSummariesLock
    \/ LoadSummariesRead
    \/ LoadSummariesReturn
    \/ \E response \in ConcurrentResponses :
           GenerateGreeting(response) \/ GenerateSummary(response)
    \/ SaveDigestContent
    \/ RefreshDigestFeed

SpecSummaries == InitDigest /\ [][NextSummaries]_vars

\* The same with the request threads that serve the digest feed
NextDigest ==
    \/ NextSummaries
    \/ \E r \in Readers : LoadDigestRead(r) \/ LoadDigestReturn(r)

SpecDigest == InitDigest /\ [][NextDigest]_vars

----------------------------------------------------------------------------
(* Properties of the summary records *)

\* What one _load_summaries read and returned: one record for each id it read,
\* the one appended last for that id
LastWins(load) ==
    /\ \A i, j \in DOMAIN load.returned :
           i # j => load.returned[i].id # load.returned[j].id
    /\ \A k \in DOMAIN load.read :
           \E i \in DOMAIN load.returned : load.returned[i].id = load.read[k].id
    /\ \A i \in DOMAIN load.returned :
           \E k \in DOMAIN load.read :
               /\ load.read[k] = load.returned[i]
               /\ \A m \in DOMAIN load.read :
                      m > k => load.read[m].id # load.returned[i].id

\* C33: whatever records were appended, _load_summaries returns at most one
\* record per article id, the last one appended for that id, and leaves the
\* record file empty.
C33_LastWriteWins ==
    /\ [](\A l \in DOMAIN digest.loads : LastWins(digest.loads[l]))
    /\ [][Len(digest'.loads) > Len(digest.loads) =>
             /\ digest'.summary_file = <<>>
             /\ digest'.loads[Len(digest'.loads)].read = digest.summary_file]_vars

\* C33 witness: a load read three records, two of them for one article, and
\* returned two
C33_Witness ==
    \E l \in DOMAIN digest.loads :
        /\ Len(digest.loads[l].read) = MaxRecords
        /\ Len(digest.loads[l].returned) = MaxRecords - 1
        /\ digest.loads[l].read[1].id = digest.loads[l].read[MaxRecords].id
        /\ digest.summary_file = <<>>

\* The threads inside a with SUMMARY_FILE_LOCK block
InSummaryLock ==
    {w \in Workers : digest.saver[w].pc = "locked"}
        \cup (IF digest.job.pc \in {"read", "truncate"} THEN {JOB} ELSE {})

\* The loads that read the record with this serial
LoadsOf(serial) ==
    {l \in DOMAIN digest.loads :
        \E k \in DOMAIN digest.loads[l].read : digest.loads[l].read[k].serial = serial}

\* The record with this serial is a line of the file
InSummaryFile(serial) ==
    \E k \in DOMAIN digest.summary_file : digest.summary_file[k].serial = serial

\* C34: under every interleaving of save_summary and _load_summaries at most
\* one thread is inside a with SUMMARY_FILE_LOCK block; every record appended
\* is either still in the file or was read by exactly one load, the one whose
\* truncation erased it; no record is returned by two loads.
C34_AppendConsumeExclusive ==
    /\ Cardinality(InSummaryLock) <= 1
    /\ \A t \in InSummaryLock : digest.SUMMARY_FILE_LOCK = t
    /\ \A serial \in 1 .. digest.appended :
           /\ Cardinality(LoadsOf(serial)) + (IF InSummaryFile(serial) THEN 1 ELSE 0) = 1
           /\ Cardinality({l \in DOMAIN digest.loads :
                  \E i \in DOMAIN digest.loads[l].returned :
                      digest.loads[l].returned[i].serial = serial}) <= 1

\* C34 witness: the job holds the lock between reading and truncating while a
\* worker waits to append; an earlier load has consumed records
C34_Witness ==
    /\ digest.job.pc = "truncate"
    /\ digest.job.lines # <<>>
    /\ \E w \in Workers :
           digest.saver[w].pc = "called" /\ digest.saver[w].content # <<>>
    /\ digest.loads # <<>>
    /\ digest.loads[1].returned # <<>>

----------------------------------------------------------------------------
(* Properties of a failed digest generation *)

\* A record the running job has read is a line of the file
ConsumedStillInFile ==
    \E k \in DOMAIN digest.job.lines : InSummaryFile(digest.job.lines[k].serial)

----------------------------------------------------------------------------
(* Properties of the digest file *)

\* C35: under every interleaving of _save_digest_content and
\* load_digest_content a generated digest is returned by at most one
\* consumption, and no consumption erases a digest it did not return.
C35_DigestHandoff ==
    /\ \A i, j \in DOMAIN digest.consumed :
           (i # j /\ digest.consumed[i].content # <<>>)
               => digest.consumed[i].content # digest.consumed[j].content
    /\ \A i \in DOMAIN digest.consumed :
           digest.consumed[i].erased # <<>>
               => digest.consumed[i].erased = digest.consumed[i].content

================================================================================
